---- MODULE Spec2Model ----
(***************************************************************************)
(* Model of the Vex_Ads backend: the competitor-ad analysis route          *)
(* (api/routes/competitors.py, services/meta_api.py, models/database.py)   *)
(* and the ad generation route (api/routes/generate.py with the services   *)
(* visual_bible_creator, creative_director, image_generator, storage).     *)
(*                                                                         *)
(* Scores: winner_score is days_running * 1.5 or * 1.0 in the source; the  *)
(* model carries TWICE the score (days * 3 or days * 2) so that it stays   *)
(* an integer.  Time is counted in ticks, TicksPerDay ticks to a day, so   *)
(* that timedelta.days (a floor) is a real computation.                    *)
(***************************************************************************)
EXTENDS Integers, Sequences, FiniteSets, TLC

\* ------------------------------------------------------------------ bounds
MaxReqs == 2        \* analyze_competitor requests
MaxAds == 2         \* ads in one search result
MaxNow == 1         \* ticks the clock may advance
TicksPerDay == 2    \* resolution of the clock
NumAdIds == 2       \* distinct external ad identifiers
MaxBrandAssets == 1 \* brand_image rows a session may hold
MaxRawConcepts == 6 \* concepts the model may return in one JSON array
MaxBadLen == 2      \* longest batch drawn with a missing or empty hook
MaxFetched == 6     \* ads in the search result of a page with many ads
MaxTieIds == 4      \* distinct ads of a page with several unscored ads
MaxStartDays == 10  \* oldest delivery start drawn for scoring, in days
MaxHeight == 6      \* rows of the images whose bands are analysed
MaxWords == 3       \* words in a hook
MaxCalls == 2       \* calls of create_final_ad_image on the same arguments
MaxQuota == 2       \* synthesis calls a limited quota still admits
MaxVariations == 3
MaxBrandFiles == 6      \* most files in the brand_image field of one upload  \* num_variations of generate_multiple_ads

\* ------------------------------------------------------- program constants
MinDays == 7        \* meta_api.py: if days_running < 7
ActiveMult2 == 3    \* 2 * 1.5
InactiveMult2 == 2  \* 2 * 1.0
TopK == 5           \* competitors.py: competitor_ads[:5]
MaxConcepts == 5    \* creative_director.py: ad_concepts[:5]
MaxBrandImages == 5
MinBrandImages == 3 \* generate.py: brand_image_assets[:5]
Thirds == 3         \* image_compositor.py: top, middle and bottom third
BaseScore == 1000   \* image_compositor.py: score = 1000 - variance - penalty
BrightnessPenalty == 50  \* image_compositor.py: brightness_penalty = 50
TooBright == 200    \* image_compositor.py: avg_brightness > 200
TooDark == 50       \* image_compositor.py: avg_brightness < 50
DarkBackground == 128    \* image_compositor.py: avg_brightness < 128
MaxCharsPerLine == 25    \* image_compositor.py: _wrap_text(hook, 25)

\* ------------------------------------------------------------------ values
Reqs == 1..MaxReqs
AdIds == 1..NumAdIds
Sessions == {"s1"}          \* rows of the sessions table
RequestSessions == Sessions \cup {"sx"}   \* "sx": no such session

\* The ad library the search reads: one raw ad per external identifier.  Its
\* start_date is an ISO string just under MinDays old at tick 0, one well over
\* MinDays old, an unparsable string, or absent; odd ads carry an image URL.
StartDateOf(id) ==
    CASE id % 4 = 1 -> [kind |-> "iso", t |-> 0 - (MinDays * TicksPerDay - 1)]
      [] id % 4 = 2 -> [kind |-> "iso", t |-> 0 - (MinDays * TicksPerDay + TicksPerDay)]
      [] id % 4 = 3 -> [kind |-> "bad", t |-> 0]
      [] OTHER -> [kind |-> "absent", t |-> 0]

RawAd(id) == [ad_archive_id |-> id, start_date |-> StartDateOf(id), image_url |-> id % 2 = 1]

RawAds == { RawAd(id) : id \in AdIds }

\* the library of a page that holds the first ids of these
RawAdsOf(ids) == { RawAd(id) : id \in 1..ids }

VARIABLES
    now,              \* the clock, in ticks
    competitor_ads,   \* table competitor_ads: sequence of rows, id = position
    bucket_competitor,\* number of objects in bucket competitor-ads
    req,              \* per request: position and locals of analyze_competitor
    running,          \* the request the event loop is executing, or 0
    reply,            \* the HTTP reply sent last
    library,          \* the page in the ad library: distinct ads it holds (ids)
                      \* and most ads one search returns (size)
    scored,           \* calculate_winner_score: the last argument and result
    sessions,         \* table sessions: the number of rows
    bucket_user_assets,\* number of objects in bucket user-assets
    upload,           \* upload_assets: its position, the files sent, the reply
    synth_quota,      \* the image model's quota: whether there is a limit, and
                      \* the calls it admits before it answers 429 RESOURCE_EXHAUSTED
    multi,            \* generate_multiple_ads: position, locals, and the synthesis
                      \* calls it has made
    \* ---- services/image_compositor
    ad_inputs,        \* the arguments: background image, hook, logo, and where
                      \* the logo processing fails; and whether Helvetica is installed
    text_position,    \* what _find_best_text_position returned for the background
    composites,       \* what the successive calls of create_final_ad_image returned
    \* ---- generate_ad_angles: one generation run
    user_assets,      \* the session's rows in user_assets, by type
    collected,        \* the locals session, brand_image_bytes_list (its length),
                      \* logo_bytes and product_image_bytes, as far as assigned
    phase,            \* stage of the run (spec section 4.6)
    aborted_from,     \* the stage the run was in when it raised, "" if it did not
    visual_bible,     \* the dict create_visual_bible returned
    ad_concepts,      \* the list generate_ad_concepts returned
    tasks,            \* per concept: the generate_and_composite_ad coroutine
    bucket_generated, \* bucket generated-ads: sequence of objects, path = position
    generated_ad_sets,\* table of run records
    calls,            \* external capability calls made so far
    bible_calls,      \* how the two text-completion calls of create_visual_bible ended
    concept_output,   \* what the text-completion call of generate_ad_concepts gave
    gen_reply         \* the HTTP reply of the run

compVars == <<now, competitor_ads, bucket_competitor, req, running, reply>>

\* what neither route writes
upVars == <<sessions, bucket_user_assets, upload>>

envVars == <<library, scored, synth_quota, multi, ad_inputs, text_position, composites,
             upVars>>

imgVars == <<ad_inputs, text_position, composites>>

genVars == <<user_assets, collected, phase, aborted_from, visual_bible, ad_concepts, tasks,
             bucket_generated, generated_ad_sets, calls, bible_calls, concept_output,
             gen_reply>>

vars == <<now, competitor_ads, bucket_competitor, req, running, reply,
          sessions, bucket_user_assets, upload,
          library, scored, synth_quota, multi, ad_inputs, text_position, composites,
          user_assets, collected, phase, aborted_from, visual_bible, ad_concepts, tasks,
          bucket_generated, generated_ad_sets, calls, bible_calls, concept_output,
          gen_reply>>

\* ------------------------------------------------------- services/meta_api
\* datetime.fromisoformat(s.replace("Z", "+00:00")): <<t>> or <<>> (ValueError)
fromisoformat(s) == IF s.kind = "iso" THEN <<s.t>> ELSE <<>>

\* datetime.isoformat(), as create_competitor_ad stores it
isoformat(d) == [kind |-> "iso", t |-> d[1]]

\* variant without the minimum of line 156
calculate_winner_score_no_minimum(ad_data) ==
    IF ad_data.ad_delivery_start = <<>> THEN 0
    ELSE ((now - ad_data.ad_delivery_start[1]) \div TicksPerDay)
         * (IF ad_data.is_active THEN ActiveMult2 ELSE InactiveMult2)

\* variant that adds a bonus day for an active ad instead of multiplying
calculate_winner_score_bonus(ad_data) ==
    IF ad_data.ad_delivery_start = <<>> THEN 0
    ELSE LET days_running == (now - ad_data.ad_delivery_start[1]) \div TicksPerDay
         IN IF days_running < MinDays THEN 0
            ELSE (days_running + (IF ad_data.is_active THEN 1 ELSE 0)) * InactiveMult2

calculate_winner_score(ad_data) ==
    IF ad_data.ad_delivery_start = <<>> THEN 0
    ELSE LET days_running == (now - ad_data.ad_delivery_start[1]) \div TicksPerDay
         IN IF days_running < MinDays THEN 0
            ELSE days_running * (IF ad_data.is_active THEN ActiveMult2 ELSE InactiveMult2)

process_ad_data(raw_ad) ==
    LET start == IF raw_ad.start_date.kind = "absent" THEN <<>>
                 ELSE fromisoformat(raw_ad.start_date)
        base == [ad_id |-> raw_ad.ad_archive_id,
                 image_url |-> raw_ad.image_url,
                 ad_delivery_start |-> start,
                 is_active |-> TRUE]
    IN [ad_id |-> base.ad_id, image_url |-> base.image_url,
        ad_delivery_start |-> base.ad_delivery_start, is_active |-> base.is_active,
        winner_score |-> calculate_winner_score(base)]

\* what client.get(image_url) does: the content comes back, an httpx.HTTPError
\* is raised (transport error or error status), or the URL cannot be parsed and
\* httpx.InvalidURL is raised
DownloadOutcomes == {"content", "http_error", "invalid_url"}

\* variant whose handler catches every exception
download_image_catching_all(fetched) ==
    [raised |-> FALSE, content |-> fetched = "content"]

\* lines 271-291: the bytes, or None for an httpx.HTTPError; httpx.InvalidURL
\* is not an httpx.HTTPError and leaves the function
download_image(fetched) ==
    [raised |-> fetched = "invalid_url", content |-> fetched = "content"]

\* ------------------------------------------------- api/routes/competitors
\* variant that counts from the day after the start
calculate_days_running_from_next_day(start) ==
    IF start = <<>> THEN 0
    ELSE LET d == ((now - start[1]) \div TicksPerDay) - 1
         IN IF d < 0 THEN 0 ELSE d

\* calculate_days_running on a stored (string) or a parsed start date
calculate_days_running(start) ==
    IF start = <<>> THEN 0
    ELSE LET d == (now - start[1]) \div TicksPerDay
         IN IF d < 0 THEN 0 ELSE d

\* --------------------------------------------------------- models/database
get_session(session_id) == session_id \in Sessions

\* mutant: the lookup filters on the row's own id instead of Meta's ad_id
get_competitor_ad_by_row_id(session_id, meta_ad_id) ==
    LET hits == { k \in 1..Len(competitor_ads) :
                    /\ competitor_ads[k].session_id = session_id
                    /\ competitor_ads[k].id = meta_ad_id }
    IN IF hits = {} THEN <<>>
       ELSE << competitor_ads[CHOOSE k \in hits : \A j \in hits : k <= j] >>

get_competitor_ad_by_meta_id(session_id, meta_ad_id) ==
    LET hits == { k \in 1..Len(competitor_ads) :
                    /\ competitor_ads[k].session_id = session_id
                    /\ competitor_ads[k].ad_id = meta_ad_id }
    IN IF hits = {} THEN <<>>
       ELSE << competitor_ads[CHOOSE k \in hits : \A j \in hits : k <= j] >>

\* the row create_competitor_ad inserts; ad_delivery_start is set only when truthy
create_competitor_ad(session_id, ad_data, storage_path) ==
    [id |-> Len(competitor_ads) + 1,
     session_id |-> session_id,
     ad_id |-> ad_data.ad_id,
     storage_path |-> storage_path,
     is_active |-> ad_data.is_active,
     winner_score |-> ad_data.winner_score,
     ad_delivery_start |-> IF ad_data.ad_delivery_start = <<>>
                           THEN [kind |-> "absent", t |-> 0]
                           ELSE isoformat(ad_data.ad_delivery_start)]

\* rows k, k-1, ..., 1 of the session: order("created_at", desc=True)
RECURSIVE RowsNewestFirst(_, _)
RowsNewestFirst(session_id, k) ==
    IF k = 0 THEN <<>>
    ELSE (IF competitor_ads[k].session_id = session_id THEN <<competitor_ads[k]>> ELSE <<>>)
         \o RowsNewestFirst(session_id, k - 1)

get_competitor_ads(session_id) == RowsNewestFirst(session_id, Len(competitor_ads))

\* ------------------------------------------------------------ list.sort
\* insert e behind every entry whose winner_score is >= its own (stable)
RECURSIVE InsertDesc(_, _)
InsertDesc(sorted, e) ==
    IF sorted = <<>> THEN <<e>>
    ELSE IF Head(sorted).winner_score >= e.winner_score
         THEN <<Head(sorted)>> \o InsertDesc(Tail(sorted), e)
         ELSE <<e>> \o sorted

\* competitor_ads.sort(key=lambda x: x.winner_score, reverse=True)
RECURSIVE SortByWinnerScore(_)
SortByWinnerScore(ads) ==
    IF ads = <<>> THEN <<>>
    ELSE InsertDesc(SortByWinnerScore(SubSeq(ads, 1, Len(ads) - 1)), ads[Len(ads)])

\* variant that keeps the last five: competitor_ads[-5:]
LastFive(ads) == SubSeq(ads, IF Len(ads) < TopK THEN 1 ELSE Len(ads) - TopK + 1, Len(ads))

\* competitor_ads[:5]
TopWinners(ads) == SubSeq(ads, 1, IF Len(ads) < TopK THEN Len(ads) ELSE TopK)

\* ------------------------------------------------------ analyze_competitor
NoAdData == [ad_id |-> 0, image_url |-> FALSE, ad_delivery_start |-> <<>>,
             is_active |-> FALSE, winner_score |-> 0]

\* The locals of one call.  raw_ads is not kept: the search result is read one
\* ad at a time, i counts the ads read so far, and whether the result has a
\* further ad is drawn when the loop gets there.
IdleReq == [pc |-> "idle", session_id |-> "", i |-> 0,
            ad_data |-> NoAdData, competitor_ads |-> <<>>, download_count |-> 0,
            searches |-> 0]

DoneReq == [IdleReq EXCEPT !.pc = "done"]

\* route and detail say which handler replied and with which message; searches
\* is the number of searches the call made and unsorted the list it had built
\* before list.sort
NoReply == [status |-> 0, session_id |-> "", ads_found |-> 0, ads_downloaded |-> 0,
            competitor_ads |-> <<>>, route |-> "", detail |-> "", searches |-> 0,
            unsorted |-> <<>>]

\* the CompetitorAdResponse built for a row that already exists (lines 121-146)
ExistingEntry(existing_ad, ad_data) ==
    [id |-> existing_ad.id,
     ad_id |-> existing_ad.ad_id,
     ad_delivery_start |-> existing_ad.ad_delivery_start,
     is_active |-> ad_data.is_active,
     days_running |-> calculate_days_running(fromisoformat(existing_ad.ad_delivery_start)),
     winner_score |-> ad_data.winner_score,
     existing |-> TRUE]

\* the CompetitorAdResponse built for a row just created (lines 192-209)
NewEntry(db_ad, ad_data) ==
    [id |-> db_ad.id,
     ad_id |-> ad_data.ad_id,
     ad_delivery_start |-> db_ad.ad_delivery_start,
     is_active |-> ad_data.is_active,
     days_running |-> calculate_days_running(ad_data.ad_delivery_start),
     winner_score |-> ad_data.winner_score,
     existing |-> FALSE]

\* raise HTTPException(code): the request ends with an error reply
Raise(r, session_id, code, detail) ==
    /\ req' = [req EXCEPT ![r] = DoneReq]
    /\ reply' = [NoReply EXCEPT !.status = code, !.session_id = session_id,
                                !.route = "analyze", !.detail = detail,
                                !.searches = req[r].searches]
    /\ running' = 0

\* lines 211-221: sort, keep the top 5, return
Return(r, rec, ads) ==
    /\ req' = [req EXCEPT ![r] = DoneReq]
    /\ reply' = [status |-> 200, session_id |-> rec.session_id,
                 ads_found |-> rec.i, ads_downloaded |-> rec.download_count,
                 competitor_ads |-> TopWinners(SortByWinnerScore(ads)),
                 route |-> "analyze", detail |-> "", searches |-> rec.searches,
                 unsorted |-> ads]
    /\ running' = 0

\* end of one loop iteration: on to the next raw ad without awaiting, or return
Advance(r, rec, entry) ==
    LET ads == Append(rec.competitor_ads, entry)
    IN \/ /\ rec.i < library.size    \* raw_ads has a further ad
          /\ req' = [req EXCEPT ![r] = [rec EXCEPT !.pc = "loop", !.i = rec.i + 1,
                                                    !.competitor_ads = ads,
                                                    !.ad_data = NoAdData]]
          /\ running' = r
          /\ UNCHANGED reply
       \/ Return(r, rec, ads)        \* that was the last one

\* lines 68-98: session check, page id, then await fetch_ads_from_searchapi
AnalyzeStart(r) ==
    /\ running = 0
    /\ req[r].pc = "idle"
    /\ \A q \in Reqs : q < r => req[q].pc # "idle"   \* requests are numbered by arrival
    /\ \E session_id \in RequestSessions, page_ok \in BOOLEAN :
          IF ~get_session(session_id) THEN Raise(r, session_id, 404, "Session not found")
          ELSE IF ~page_ok THEN Raise(r, session_id, 400, "Could not extract page ID")
          ELSE /\ req' = [req EXCEPT ![r] = [IdleReq EXCEPT !.pc = "fetching",
                                                            !.session_id = session_id,
                                                            !.searches = 1]]
               /\ UNCHANGED <<running, reply>>
    /\ UNCHANGED <<now, competitor_ads, bucket_competitor>>

\* variant that searches once more when the result is empty
FetchReturnRetrying(r) ==
    /\ running = 0
    /\ req[r].pc = "fetching"
    /\ \/ Raise(r, req[r].session_id, 500, "Failed to analyze")
       \/ IF req[r].searches < 2
          THEN /\ req' = [req EXCEPT ![r].searches = @ + 1]
               /\ UNCHANGED <<running, reply>>
          ELSE Raise(r, req[r].session_id, 404, "No ads found")
       \/ /\ req' = [req EXCEPT ![r] = [@ EXCEPT !.pc = "loop", !.i = 1]]
          /\ running' = r
          /\ UNCHANGED reply
    /\ UNCHANGED <<now, competitor_ads, bucket_competitor>>

\* lines 94-106: the search returns (or raises); an empty result is a 404
FetchReturn(r) ==
    /\ running = 0
    /\ req[r].pc = "fetching"
    /\ \/ Raise(r, req[r].session_id, 500, "Failed to analyze")
       \/ Raise(r, req[r].session_id, 404, "No ads found")      \* raw_ads is empty
       \/ /\ req' = [req EXCEPT ![r] = [@ EXCEPT !.pc = "loop", !.i = 1]]
          /\ running' = r
          /\ UNCHANGED reply
    /\ UNCHANGED <<now, competitor_ads, bucket_competitor>>

\* lines 112-146: the raw ad is processed and found in the table
LoopExisting(r) ==
    /\ running = r
    /\ req[r].pc = "loop"
    /\ \E raw_ad \in RawAdsOf(library.ids) :
       LET ad_data == process_ad_data(raw_ad)
           existing_ad == get_competitor_ad_by_meta_id(req[r].session_id, ad_data.ad_id)
       IN /\ existing_ad # <<>>
          /\ \E sign_ok \in BOOLEAN :
                IF existing_ad[1].storage_path /\ ~sign_ok
                THEN Raise(r, req[r].session_id, 500, "Failed to analyze")
                ELSE Advance(r, req[r], ExistingEntry(existing_ad[1], ad_data))
    /\ UNCHANGED <<now, competitor_ads, bucket_competitor>>

\* lines 112-156: not in the table and it has an image URL: await download_image
LoopDownload(r) ==
    /\ running = r
    /\ req[r].pc = "loop"
    /\ \E raw_ad \in RawAdsOf(library.ids) :
       LET ad_data == process_ad_data(raw_ad)
           existing_ad == get_competitor_ad_by_meta_id(req[r].session_id, ad_data.ad_id)
       IN /\ existing_ad = <<>>
          /\ ad_data.image_url
          /\ req' = [req EXCEPT ![r] = [@ EXCEPT !.pc = "downloading", !.ad_data = ad_data]]
    /\ running' = 0
    /\ UNCHANGED <<now, competitor_ads, bucket_competitor, reply>>

\* lines 168-209 for the row to insert: create_competitor_ad, sign, append
InsertAndAdvance(r, ad_data, storage_path, db_ok, sign_ok) ==
    LET db_ad == create_competitor_ad(req[r].session_id, ad_data, storage_path)
        counted == [req[r] EXCEPT !.download_count = @ + (IF storage_path THEN 1 ELSE 0)]
    IN /\ competitor_ads' = IF db_ok THEN Append(competitor_ads, db_ad) ELSE competitor_ads
       /\ IF ~db_ok \/ (storage_path /\ ~sign_ok)
          THEN Raise(r, req[r].session_id, 500, "Failed to analyze")
          ELSE Advance(r, counted, NewEntry(db_ad, ad_data))

\* lines 148-209: not in the table, no image URL: the row is inserted at once
LoopInsert(r) ==
    /\ running = r
    /\ req[r].pc = "loop"
    /\ \E raw_ad \in RawAdsOf(library.ids) :
       LET ad_data == process_ad_data(raw_ad)
           existing_ad == get_competitor_ad_by_meta_id(req[r].session_id, ad_data.ad_id)
       IN /\ existing_ad = <<>>
          /\ ~ad_data.image_url
          /\ \E db_ok \in BOOLEAN : InsertAndAdvance(r, ad_data, FALSE, db_ok, TRUE)
    /\ UNCHANGED <<now, bucket_competitor>>

\* lines 156-209: download_image is over: upload, insert, sign, append; an
\* exception out of download_image ends the request with the 500 of line 226,
\* whose detail carries the text of the exception
DownloadReturn(r) ==
    /\ running = 0
    /\ req[r].pc = "downloading"
    /\ \E fetched \in DownloadOutcomes, upload_ok \in BOOLEAN, db_ok \in BOOLEAN,
          sign_ok \in BOOLEAN :
          LET image_bytes == download_image(fetched).content
          IN IF download_image(fetched).raised
             THEN /\ Raise(r, req[r].session_id, 500, "Failed to analyze: invalid URL")
                  /\ UNCHANGED <<competitor_ads, bucket_competitor>>
             ELSE IF image_bytes /\ ~upload_ok
             THEN /\ Raise(r, req[r].session_id, 500, "Failed to analyze")
                  /\ UNCHANGED <<competitor_ads, bucket_competitor>>
             ELSE /\ bucket_competitor' = bucket_competitor + (IF image_bytes THEN 1 ELSE 0)
                  /\ InsertAndAdvance(r, req[r].ad_data, image_bytes, db_ok, sign_ok)
    /\ UNCHANGED now

\* ------------------------------------------------------ get_competitor_ads
\* the CompetitorAdResponse built for a stored row (lines 262-279)
StoredEntry(ad) ==
    [id |-> ad.id,
     ad_id |-> ad.ad_id,
     ad_delivery_start |-> ad.ad_delivery_start,
     is_active |-> ad.is_active,
     days_running |-> calculate_days_running(fromisoformat(ad.ad_delivery_start)),
     winner_score |-> ad.winner_score,
     existing |-> TRUE]

\* lines 232-286: the handler awaits nothing; a signed URL that cannot be made
\* is an unhandled exception, a 500
GetCompetitorAds ==
    /\ running = 0
    /\ \E session_id \in RequestSessions, sign_ok \in BOOLEAN :
          LET ads == get_competitor_ads(session_id)
              result == [k \in 1..Len(ads) |-> StoredEntry(ads[k])]
              read == [NoReply EXCEPT !.route = "read", !.session_id = session_id]
          IN IF ~get_session(session_id)
             THEN reply' = [read EXCEPT !.status = 404, !.detail = "Session not found"]
             ELSE IF ~sign_ok /\ \E k \in 1..Len(ads) : ads[k].storage_path
             THEN reply' = [read EXCEPT !.status = 500]
             ELSE reply' = [read EXCEPT !.status = 200,
                                        !.competitor_ads = SortByWinnerScore(result),
                                        !.unsorted = result]
    /\ UNCHANGED <<now, competitor_ads, bucket_competitor, req, running>>

\* ------------------------------------------------- calculate_winner_score
\* the start_date values scoring is tried on: absent, unparsable, or an ISO
\* date from MaxStartDays before tick 0 to one day after it
StartDates ==
    { [kind |-> "absent", t |-> 0], [kind |-> "bad", t |-> 0] }
    \cup { [kind |-> "iso", t |-> t] :
              t \in (0 - MaxStartDays * TicksPerDay) .. TicksPerDay }

NoScore == [start_date |-> [kind |-> "absent", t |-> 0], is_active |-> FALSE,
            now |-> 0 - 1, winner_score |-> 0, twin_score |-> 0]

\* the ad_data dict scoring reads: process_ad_data lines 181-189 parse the date
ScoreInput(start_date, is_active) ==
    [ad_delivery_start |-> IF start_date.kind = "absent" THEN <<>>
                           ELSE fromisoformat(start_date),
     is_active |-> is_active]

\* calculate_winner_score is called on a candidate and on the candidate that
\* differs from it in is_active only
ScoreAd ==
    /\ \E start_date \in StartDates, is_active \in BOOLEAN :
          scored' = [start_date |-> start_date,
                     is_active |-> is_active,
                     now |-> now,
                     winner_score |->
                        calculate_winner_score(ScoreInput(start_date, is_active)),
                     twin_score |->
                        calculate_winner_score(ScoreInput(start_date, ~is_active))]
    /\ UNCHANGED <<compVars, genVars, upVars, library, synth_quota, multi, imgVars>>

\* the wall clock
Tick ==
    /\ now < MaxNow
    /\ now' = now + 1
    /\ UNCHANGED <<competitor_ads, bucket_competitor, req, running, reply>>

\* =========================================================== generation
\* ------------------------------------------ services/visual_bible_creator
\* what a text-completion call does: raises, or returns a response whose .text
\* is None, is empty (or blank), or is usable text
TextOutcomes == {"raise", "none", "empty", "text"}

NoBible == [full_analysis |-> "unset", style_directive |-> "unset",
            brand_name |-> "brand", num_reference_images |-> 0]

\* lines 125-133: the minimal guide built from brand_name and product_description
FallbackBible(n) == [full_analysis |-> "fallback", style_directive |-> "fallback",
                     brand_name |-> "brand", num_reference_images |-> n]

\* lines 82-133.  style_directive is "model" (text of the second call), "" (that
\* text stripped to nothing) or "fallback"; full_analysis is response.text as is.
create_visual_bible(n, pil_ok, call1, call2) ==
    IF ~pil_ok \/ call1 = "raise" THEN FallbackBible(n)
    ELSE IF call2 \in {"raise", "none"} THEN FallbackBible(n)   \* None.strip() raises
    ELSE [full_analysis |-> call1,
          style_directive |-> IF call2 = "empty" THEN "" ELSE "model",
          brand_name |-> "brand",
          num_reference_images |-> n]

\* the calls create_visual_bible got to make: Image.open raising skips both, the
\* first call raising skips the second
BibleCalls(pil_ok, call1, call2) ==
    IF ~pil_ok THEN <<"skipped", "skipped">>
    ELSE IF call1 = "raise" THEN <<"raise", "skipped">>
    ELSE <<call1, call2>>

CallsMade(made) == Cardinality({k \in 1..Len(made) : made[k] # "skipped"})

\* -------------------------------------------- services/creative_director
AllOk(n) == [k \in 1..n |-> [visual_prompt |-> "vp", hook |-> "text"]]

OneBad(n, bad, kind) ==
    [k \in 1..n |-> [visual_prompt |-> "vp", hook |-> IF k = bad THEN kind ELSE "text"]]

\* the JSON arrays the model may return: hook "" is an empty string, hook
\* "missing" an object without the key
ConceptBatches ==
    { AllOk(n) : n \in 0..MaxRawConcepts }
    \cup { OneBad(n, bad, kind) : n \in 1..MaxBadLen, bad \in 1..MaxBadLen,
                                  kind \in {"", "missing"} }

\* what the text-completion call gives: it raises, .text is None, the text is
\* not JSON, or the text is one of the arrays
ConceptOutputs ==
    { [kind |-> k, parsed |-> <<>>] : k \in {"raise", "none", "unparsable"} }
    \cup { [kind |-> "json", parsed |-> b] : b \in ConceptBatches }

\* variant with partial-batch recovery: text that is not JSON yields one
\* stock concept instead of an exception
generate_ad_concepts_lenient(response) ==
    IF response.kind \in {"raise", "none"}
    THEN [raised |-> TRUE, ad_concepts |-> <<>>]
    ELSE IF response.kind = "unparsable"
    THEN [raised |-> FALSE, ad_concepts |-> AllOk(1)]
    ELSE [raised |-> FALSE,
          ad_concepts |-> SubSeq(response.parsed, 1,
                                 IF Len(response.parsed) < MaxConcepts
                                 THEN Len(response.parsed) ELSE MaxConcepts)]

\* lines 133-162: any exception is re-raised; line 155: return ad_concepts[:5]
generate_ad_concepts(response) ==
    IF response.kind # "json"
    THEN [raised |-> TRUE, ad_concepts |-> <<>>]
    ELSE [raised |-> FALSE,
          ad_concepts |-> SubSeq(response.parsed, 1,
                                 IF Len(response.parsed) < MaxConcepts
                                 THEN Len(response.parsed) ELSE MaxConcepts)]

\* ------------------------------------------------ services/image_generator
\* variant without the except branch of lines 156-160
generate_ad_image_no_fallback(synth_ok) == "model"

\* lines 102-160: the model's image, or the gradient when anything raised
generate_ad_image(synth_ok) == IF synth_ok THEN "model" ELSE "fallback"

\* the image model answers every call, or answers 429 RESOURCE_EXHAUSTED to
\* every call after the first `calls`
Unlimited == [limited |-> FALSE, calls |-> 0]

\* the synthesis call made as call number k meets an exhausted quota
RateLimited(k) == synth_quota.limited /\ k > synth_quota.calls

\* --------------------------------------------------- api/routes/generate
NoAd == [hook |-> "", image_url |-> FALSE, image_path |-> 0]

\* synth_calls: the calls of generate_ad_image the coroutine has made
PendingTask == [pc |-> "pending", synth |-> "none", upload |-> "none", sign |-> "none",
                synth_calls |-> 0, ad |-> NoAd]

NoGenReply == [status |-> 0, ads |-> <<>>]

\* record store, generated_ad_sets: the row written for a run
create_generated_ad_set(ads) == [ads |-> ads]

\* record store, user_assets: the number of rows of the given type
get_user_assets_by_type(asset_type) == user_assets[asset_type]

\* database.py lines 104-126: the newest row of the given type, or None
get_user_asset_by_type(asset_type) == user_assets[asset_type]

\* raise HTTPException(code) out of generate_ad_angles
Abort(code) ==
    /\ phase' = "Aborted"
    /\ aborted_from' = phase
    /\ gen_reply' = [status |-> code, ads |-> <<>>]

\* lines 29-59: the request arrives and the run begins
StartRun ==
    /\ phase = "Idle"
    /\ phase' = "CollectingInputs"
    /\ UNCHANGED <<aborted_from, gen_reply>>
    /\ UNCHANGED <<user_assets, collected, visual_bible, ad_concepts, tasks, bucket_generated,
                   generated_ad_sets, calls, bible_calls, concept_output>>

\* the locals before line 66
NoneCollected == [session |-> FALSE, brand_images |-> 0, logo |-> FALSE,
                  product_image |-> FALSE]

\* variant of lines 101-117 in which the logo is optional
CollectInputsLogoOptional ==
    /\ phase = "CollectingInputs"
    /\ \E session_ok \in BOOLEAN, db_ok \in BOOLEAN, downloaded \in 0..MaxBrandImages,
          logo_dl \in BOOLEAN, product_dl \in BOOLEAN :
          LET brand_rows == get_user_assets_by_type("brand_image")
              logo_bytes == get_user_asset_by_type("logo") /\ logo_dl
              product_image_bytes == get_user_asset_by_type("product_image") /\ product_dl
              got(n, l, p) == [session |-> TRUE, brand_images |-> n, logo |-> l,
                               product_image |-> p]
          IN /\ downloaded <= brand_rows
             /\ IF ~session_ok THEN Abort(404) /\ collected' = NoneCollected
                ELSE IF ~db_ok THEN Abort(500) /\ collected' = got(0, FALSE, FALSE)
                ELSE IF brand_rows < 1 \/ downloaded = 0
                     THEN Abort(400) /\ collected' = got(0, FALSE, FALSE)
                ELSE IF ~product_image_bytes
                     THEN Abort(400) /\ collected' = got(downloaded, logo_bytes, FALSE)
                ELSE /\ phase' = "ExtractingStyle"
                     /\ collected' = got(downloaded, logo_bytes, TRUE)
                     /\ visual_bible' = [NoBible EXCEPT !.num_reference_images = downloaded]
                     /\ UNCHANGED <<aborted_from, gen_reply>>
             /\ (phase' = "Aborted" => UNCHANGED visual_bible)
    /\ UNCHANGED <<user_assets, ad_concepts, tasks, bucket_generated,
                   generated_ad_sets, calls, bible_calls, concept_output>>

\* lines 65-135: an unknown session is a 404; brand images, logo and product
\* image are read and downloaded, each missing one is a 400; downloaded is the
\* number of brand images whose download did not raise, logo_dl and product_dl
\* tell whether those downloads returned bytes
CollectInputs ==
    /\ phase = "CollectingInputs"
    /\ \E session_ok \in BOOLEAN, db_ok \in BOOLEAN, downloaded \in 0..MaxBrandImages,
          logo_dl \in BOOLEAN, product_dl \in BOOLEAN :
          LET brand_rows == get_user_assets_by_type("brand_image")
              logo_bytes == get_user_asset_by_type("logo") /\ logo_dl
              product_image_bytes == get_user_asset_by_type("product_image") /\ product_dl
              got(n, l, p) == [session |-> TRUE, brand_images |-> n, logo |-> l,
                               product_image |-> p]
          IN /\ downloaded <= brand_rows
             /\ IF ~session_ok THEN Abort(404) /\ collected' = NoneCollected
                ELSE IF ~db_ok THEN Abort(500) /\ collected' = got(0, FALSE, FALSE)
                ELSE IF brand_rows < 1 \/ downloaded = 0
                     THEN Abort(400) /\ collected' = got(0, FALSE, FALSE)
                ELSE IF ~logo_bytes
                     THEN Abort(400) /\ collected' = got(downloaded, FALSE, FALSE)
                ELSE IF ~product_image_bytes
                     THEN Abort(400) /\ collected' = got(downloaded, TRUE, FALSE)
                ELSE /\ phase' = "ExtractingStyle"
                     /\ collected' = got(downloaded, TRUE, TRUE)
                     /\ visual_bible' = [NoBible EXCEPT !.num_reference_images = downloaded]
                     /\ UNCHANGED <<aborted_from, gen_reply>>
             /\ (phase' = "Aborted" => UNCHANGED visual_bible)
    /\ UNCHANGED <<user_assets, ad_concepts, tasks, bucket_generated,
                   generated_ad_sets, calls, bible_calls, concept_output>>

\* lines 137-144: await create_visual_bible(...)
ExtractStyle ==
    /\ phase = "ExtractingStyle"
    /\ \E pil_ok \in BOOLEAN, call1 \in TextOutcomes, call2 \in TextOutcomes :
          /\ visual_bible' = create_visual_bible(visual_bible.num_reference_images,
                                                 pil_ok, call1, call2)
          /\ bible_calls' = BibleCalls(pil_ok, call1, call2)
          /\ calls' = [calls EXCEPT !.text = @ + CallsMade(BibleCalls(pil_ok, call1, call2))]
    /\ phase' = "GeneratingConcepts"
    /\ UNCHANGED <<user_assets, collected, aborted_from, ad_concepts, tasks, bucket_generated,
                   generated_ad_sets, concept_output, gen_reply>>

\* variant that goes back to style extraction once when the concepts cannot be
\* used
GenerateConceptsReextracting ==
    /\ phase = "GeneratingConcepts"
    /\ calls' = [calls EXCEPT !.text = @ + 1]
    /\ \E response \in ConceptOutputs :
          LET result == generate_ad_concepts(response)
          IN /\ concept_output' = response.kind
             /\ IF result.raised /\ concept_output = "unset"
                THEN /\ phase' = "ExtractingStyle"
                     /\ UNCHANGED <<aborted_from, gen_reply, ad_concepts, tasks>>
                ELSE IF result.raised
                THEN /\ Abort(500)
                     /\ UNCHANGED <<ad_concepts, tasks>>
                ELSE /\ ad_concepts' = result.ad_concepts
                     /\ tasks' = [k \in 1..Len(result.ad_concepts) |-> PendingTask]
                     /\ phase' = "SynthesizingImages"
                     /\ UNCHANGED <<aborted_from, gen_reply>>
    /\ UNCHANGED <<user_assets, collected, visual_bible, bucket_generated, generated_ad_sets,
                   bible_calls>>

\* lines 146-154 and 249-257: await generate_ad_concepts(...); it re-raises, and
\* the route turns that into a 500
GenerateConcepts ==
    /\ phase = "GeneratingConcepts"
    /\ calls' = [calls EXCEPT !.text = @ + 1]
    /\ \E response \in ConceptOutputs :
          LET result == generate_ad_concepts(response)
          IN /\ concept_output' = response.kind
             /\ IF result.raised
                THEN /\ Abort(500)
                     /\ UNCHANGED <<ad_concepts, tasks>>
                ELSE /\ ad_concepts' = result.ad_concepts
                     /\ tasks' = [k \in 1..Len(result.ad_concepts) |-> PendingTask]
                     /\ phase' = "SynthesizingImages"
                     /\ UNCHANGED <<aborted_from, gen_reply>>
    /\ UNCHANGED <<user_assets, collected, visual_bible, bucket_generated, generated_ad_sets,
                   bible_calls>>

\* variant in which a failed sibling stops the coroutines after it
MayRunWhileNoneFailed(i) ==
    /\ phase = "SynthesizingImages"
    /\ tasks[i].pc = "pending"
    /\ \A j \in 1..Len(tasks) :
          j < i => /\ tasks[j].pc = "done"
                   /\ tasks[j].synth = "ok"
                   /\ tasks[j].upload = "ok"
                   /\ tasks[j].sign = "ok"

\* the coroutines asyncio.gather started run one at a time, in list order: none
\* of them awaits anything that suspends (the model call and the storage calls
\* are blocking calls)
MayRun(i) ==
    /\ phase = "SynthesizingImages"
    /\ tasks[i].pc = "pending"
    /\ \A j \in 1..Len(tasks) : j < i => tasks[j].pc = "done"

\* lines 157-168: the coroutine starts and calls generate_ad_image
TaskStart(i) ==
    /\ MayRun(i)
    /\ tasks' = [tasks EXCEPT ![i].pc = "synthesizing", ![i].synth_calls = @ + 1]
    /\ calls' = [calls EXCEPT !.synth = @ + 1]
    /\ UNCHANGED <<user_assets, collected, phase, aborted_from, visual_bible, ad_concepts,
                   bucket_generated, generated_ad_sets, bible_calls, concept_output,
                   gen_reply>>

\* lines 195-218: the GeneratedAd the coroutine returns
BuildAd(concept, uploaded, signed, path) ==
    IF uploaded /\ signed /\ concept.hook # "missing"
    THEN [hook |-> concept.hook, image_url |-> TRUE, image_path |-> path]
    ELSE [hook |-> IF concept.hook = "missing" THEN "" ELSE concept.hook,
          image_url |-> FALSE, image_path |-> 0]

\* variant in which a failed synthesis call is issued a second time
TaskFinishRetrying(i) ==
    /\ phase = "SynthesizingImages"
    /\ tasks[i].pc = "synthesizing"
    /\ \E synth_ok \in BOOLEAN, upload_ok \in BOOLEAN, sign_ok \in BOOLEAN :
          LET image == generate_ad_image(synth_ok)
              path == Len(bucket_generated) + 1
              again == ~synth_ok /\ tasks[i].synth_calls < 2
          IN /\ RateLimited(calls.synth) => ~synth_ok
             /\ calls' = [calls EXCEPT !.synth = IF again THEN @ + 1 ELSE @]
             /\ bucket_generated' =
                   IF upload_ok /\ ~again
                   THEN Append(bucket_generated,
                               [content |-> image, concept |-> i,
                                composited |-> FALSE])   \* line 171: the raw image
                   ELSE bucket_generated
             /\ tasks' = [tasks EXCEPT ![i] =
                   IF again THEN [@ EXCEPT !.synth_calls = @ + 1] ELSE
                   [pc |-> "done",
                    synth |-> IF synth_ok THEN "ok"
                              ELSE IF RateLimited(calls.synth) THEN "rate_limited"
                              ELSE "failed",
                    upload |-> IF upload_ok THEN "ok" ELSE "failed",
                    sign |-> IF ~upload_ok THEN "none"
                             ELSE IF sign_ok THEN "ok" ELSE "failed",
                    synth_calls |-> tasks[i].synth_calls,
                    ad |-> BuildAd(ad_concepts[i], upload_ok, upload_ok /\ sign_ok, path)]]
    /\ UNCHANGED <<user_assets, collected, phase, aborted_from, visual_bible, ad_concepts,
                   generated_ad_sets, bible_calls, concept_output, gen_reply>>

\* lines 163-218: generate_ad_image returns, upload, signed URL, GeneratedAd;
\* any exception ends in the ad without image.  synth_ok: generate_content and
\* the decoding of its image raised nothing; with the quota exhausted the call
\* raises
TaskFinish(i) ==
    /\ phase = "SynthesizingImages"
    /\ tasks[i].pc = "synthesizing"
    /\ \E synth_ok \in BOOLEAN, upload_ok \in BOOLEAN, sign_ok \in BOOLEAN :
          LET image == generate_ad_image(synth_ok)
              path == Len(bucket_generated) + 1
          IN /\ RateLimited(calls.synth) => ~synth_ok
             /\ bucket_generated' =
                   IF upload_ok
                   THEN Append(bucket_generated,
                               [content |-> image, concept |-> i,
                                composited |-> FALSE])   \* line 171: the raw image
                   ELSE bucket_generated
             /\ tasks' = [tasks EXCEPT ![i] =
                   [pc |-> "done",
                    synth |-> IF synth_ok THEN "ok"
                              ELSE IF RateLimited(calls.synth) THEN "rate_limited"
                              ELSE "failed",
                    upload |-> IF upload_ok THEN "ok" ELSE "failed",
                    sign |-> IF ~upload_ok THEN "none"
                             ELSE IF sign_ok THEN "ok" ELSE "failed",
                    synth_calls |-> tasks[i].synth_calls,
                    ad |-> BuildAd(ad_concepts[i], upload_ok, upload_ok /\ sign_ok, path)]]
    /\ UNCHANGED <<user_assets, collected, phase, aborted_from, visual_bible, ad_concepts,
                   generated_ad_sets, calls, bible_calls, concept_output, gen_reply>>

\* variant that drops the ads without image
GatherAdsWithImage ==
    SelectSeq([k \in 1..Len(tasks) |-> tasks[k].ad], LAMBDA ad : ad.image_url)

\* lines 225-226: ads = [result[0] for result in results]
GatherAds == [k \in 1..Len(tasks) |-> tasks[k].ad]

\* variant in which gather lets a failed synthesis through as an exception
GatherPropagating ==
    /\ phase = "SynthesizingImages"
    /\ \A k \in 1..Len(tasks) : tasks[k].pc = "done"
    /\ IF \E k \in 1..Len(tasks) : tasks[k].synth = "failed"
       THEN Abort(500)
       ELSE /\ phase' = "Persisting"
            /\ UNCHANGED <<aborted_from, gen_reply>>
    /\ UNCHANGED <<user_assets, collected, visual_bible, ad_concepts, tasks,
                   bucket_generated, generated_ad_sets, calls, bible_calls,
                   concept_output>>

\* variant that goes on waiting for a coroutine whose synthesis failed
GatherWaitingForSuccess ==
    /\ phase = "SynthesizingImages"
    /\ \A k \in 1..Len(tasks) : tasks[k].pc = "done" /\ tasks[k].synth = "ok"
    /\ phase' = "Persisting"
    /\ UNCHANGED <<user_assets, collected, aborted_from, visual_bible, ad_concepts, tasks,
                   bucket_generated, generated_ad_sets, calls, bible_calls,
                   concept_output, gen_reply>>

\* variant that returns as soon as one coroutine has returned
GatherFirstCompleted ==
    /\ phase = "SynthesizingImages"
    /\ \E k \in 1..Len(tasks) : tasks[k].pc = "done"
    /\ phase' = "Persisting"
    /\ UNCHANGED <<user_assets, collected, aborted_from, visual_bible, ad_concepts, tasks,
                   bucket_generated, generated_ad_sets, calls, bible_calls,
                   concept_output, gen_reply>>

\* lines 220-228: asyncio.gather returns once every coroutine has returned
Gather ==
    /\ phase = "SynthesizingImages"
    /\ \A k \in 1..Len(tasks) : tasks[k].pc = "done"
    /\ phase' = "Persisting"
    /\ UNCHANGED <<user_assets, collected, aborted_from, visual_bible, ad_concepts, tasks,
                   bucket_generated, generated_ad_sets, calls, bible_calls,
                   concept_output, gen_reply>>

\* lines 230-257: create_generated_ad_set, then the response; the write raising
\* becomes a 500
Persist ==
    /\ phase = "Persisting"
    /\ \E db_ok \in BOOLEAN :
          IF db_ok
          THEN /\ generated_ad_sets' =
                     Append(generated_ad_sets, create_generated_ad_set(GatherAds))
               /\ phase' = "Complete"
               /\ gen_reply' = [status |-> 200, ads |-> GatherAds]
               /\ UNCHANGED aborted_from
          ELSE /\ Abort(500)
               /\ UNCHANGED generated_ad_sets
    /\ UNCHANGED <<user_assets, collected, visual_bible, ad_concepts, tasks, bucket_generated,
                   calls, bible_calls, concept_output>>

\* ================================================= services/ai_generator
\* what client.models.generate_content does in generate_ad_image: it returns a
\* response with an image part, a response without one, or raises an error
\* whose text has or lacks "429" and "RESOURCE_EXHAUSTED"
SynthesisOutcomes ==
    { [kind |-> k, has_429 |-> FALSE, has_exhausted |-> FALSE] : k \in {"image", "no_image"} }
    \cup { [kind |-> "raise", has_429 |-> a, has_exhausted |-> b] : a, b \in BOOLEAN }

\* lines 89-164: the image bytes, None, or RateLimitError
ai_generator_generate_ad_image(outcome) ==
    IF outcome.kind = "raise"
    THEN [rate_limit_error |-> outcome.has_429 /\ outcome.has_exhausted, image |-> FALSE]
    ELSE [rate_limit_error |-> FALSE, image |-> outcome.kind = "image"]

IdleMulti == [pc |-> "idle", num_variations |-> 0, i |-> 0, generated_images |-> 0,
              attempts |-> <<>>]

\* lines 199-212: the call made for variation i, at temperature
\* min(0.7 + 0.1 * i, 1.0) (in tenths), and how it ended
Attempt(i, outcome) ==
    [variation |-> i,
     temperature |-> IF 7 + i < 10 THEN 7 + i ELSE 10,
     outcome |-> outcome,
     rate_limit_error |-> ai_generator_generate_ad_image(outcome).rate_limit_error]

\* lines 167-197: the call begins
MultiStart ==
    /\ multi.pc = "idle"
    /\ multi' = [multi EXCEPT !.pc = "looping"]
    /\ UNCHANGED <<compVars, genVars, upVars, library, scored, synth_quota, imgVars>>

\* variant whose handler goes on to the next variation
MultiIterationContinuing ==
    /\ multi.pc = "looping"
    /\ multi.i < multi.num_variations
    /\ \E outcome \in SynthesisOutcomes :
          LET result == ai_generator_generate_ad_image(outcome)
          IN multi' = [multi EXCEPT
                 !.attempts = Append(@, Attempt(multi.i, outcome)),
                 !.i = @ + 1,
                 !.generated_images = IF result.image THEN @ + 1 ELSE @]
    /\ UNCHANGED <<compVars, genVars, upVars, library, scored, synth_quota, imgVars>>

\* lines 199-218: one pass of the loop: await generate_ad_image, append the
\* image if there is one, re-raise RateLimitError
MultiIteration ==
    /\ multi.pc = "looping"
    /\ multi.i < multi.num_variations
    /\ \E outcome \in SynthesisOutcomes :
          LET result == ai_generator_generate_ad_image(outcome)
              attempts == Append(multi.attempts, Attempt(multi.i, outcome))
          IN IF result.rate_limit_error
             THEN multi' = [multi EXCEPT !.attempts = attempts, !.pc = "raised"]
             ELSE multi' = [multi EXCEPT
                      !.attempts = attempts,
                      !.i = @ + 1,
                      !.generated_images = IF result.image THEN @ + 1 ELSE @]
    /\ UNCHANGED <<compVars, genVars, upVars, library, scored, synth_quota, imgVars>>

\* line 220: return generated_images
MultiReturn ==
    /\ multi.pc = "looping"
    /\ multi.i = multi.num_variations
    /\ multi' = [multi EXCEPT !.pc = "returned"]
    /\ UNCHANGED <<compVars, genVars, upVars, library, scored, synth_quota, imgVars>>

\* =========================================================== compositor
\* An image is the sequence of its rows from top to bottom, one pixel wide; a
\* pixel is its brightness sum(p) / 3, one of these grey levels.
Levels == {0, 120, 160, 255}

RECURSIVE SumOf(_)
SumOf(pixels) == IF pixels = <<>> THEN 0 ELSE Head(pixels) + SumOf(Tail(pixels))

RECURSIVE SumOfSquares(_)
SumOfSquares(pixels) ==
    IF pixels = <<>> THEN 0 ELSE Head(pixels) * Head(pixels) + SumOfSquares(Tail(pixels))

\* rgb_image.crop((0, top, width, bottom)).getdata()
Crop(image, top, bottom) == SubSeq(image, top + 1, bottom)

\* lines 139-143: name, y and rows of the three candidate regions
Regions(image) ==
    LET height == Len(image)
    IN << [name |-> "top", y |-> 60,
           pixels |-> Crop(image, 0, height \div Thirds)],
          [name |-> "middle", y |-> (height \div 2) - 100,
           pixels |-> Crop(image, height \div Thirds, (2 * height) \div Thirds)],
          [name |-> "bottom", y |-> height - 220,
           pixels |-> Crop(image, (2 * height) \div Thirds, height)] >>

\* line 167: avg_brightness > 200 or avg_brightness < 50, avg = sum / len
OutOfRange(pixels) ==
    \/ SumOf(pixels) > TooBright * Len(pixels)
    \/ SumOf(pixels) < TooDark * Len(pixels)

\* lines 157-170: score = 1000 - variance - brightness_penalty as the fraction
\* num / den, den = len^2; variance = (len * sum of squares - sum^2) / len^2
RegionScore(pixels) ==
    LET n == Len(pixels)
        penalty == IF OutOfRange(pixels) THEN BrightnessPenalty ELSE 0
    IN [num |-> (BaseScore - penalty) * n * n
                   - (n * SumOfSquares(pixels) - SumOf(pixels) * SumOf(pixels)),
        den |-> n * n]

\* a > b for two such fractions
Greater(a, b) == a.num * b.den > b.num * a.den

\* variant that keeps the lowest score instead of the highest
RECURSIVE WorstFrom(_, _, _)
WorstFrom(regions, k, best) ==
    IF k > Len(regions) THEN best
    ELSE IF regions[k].pixels = <<>> THEN WorstFrom(regions, k + 1, best)
    ELSE IF best.score.num < 0 \/ Greater(best.score, RegionScore(regions[k].pixels))
         THEN WorstFrom(regions, k + 1,
                        [region |-> regions[k], score |-> RegionScore(regions[k].pixels)])
         ELSE WorstFrom(regions, k + 1, best)

\* lines 148-174: the loop over regions[k..], with the best so far
RECURSIVE BestFrom(_, _, _)
BestFrom(regions, k, best) ==
    IF k > Len(regions) THEN best
    ELSE IF regions[k].pixels = <<>> THEN BestFrom(regions, k + 1, best)
    ELSE IF Greater(RegionScore(regions[k].pixels), best.score)
         THEN BestFrom(regions, k + 1,
                       [region |-> regions[k], score |-> RegionScore(regions[k].pixels)])
         ELSE BestFrom(regions, k + 1, best)

\* lines 145-146 and 176: best_region = regions[2], best_score = -1; the result
find_best_text_position(image) ==
    LET regions == Regions(image)
        best == BestFrom(regions, 1, [region |-> regions[Thirds],
                                      score |-> [num |-> 0 - 1, den |-> 1]])
    IN [name |-> best.region.name, y |-> best.region.y]

\* ---- _wrap_text
\* A hook is the sequence of the lengths of its words (text.split()); a line is
\* the sequence of the lengths of the words joined on it.
WordLengths == {4, 12, 26}

Hooks == UNION {[1..n -> WordLengths] : n \in 0..MaxWords}

\* len(' '.join(line))
LineLength(line) == IF line = <<>> THEN 0 ELSE SumOf(line) + Len(line) - 1

\* variant that leaves out a word too long for a line
RECURSIVE WrapFromDroppingLongWords(_, _, _, _, _)
WrapFromDroppingLongWords(words, k, lines, current_line, max_chars_per_line) ==
    IF k > Len(words)
    THEN IF current_line # <<>> THEN Append(lines, current_line) ELSE lines
    ELSE IF words[k] > max_chars_per_line
         THEN WrapFromDroppingLongWords(words, k + 1, lines, current_line,
                                        max_chars_per_line)
    ELSE IF SumOf(current_line) + words[k] + Len(current_line) <= max_chars_per_line
         THEN WrapFromDroppingLongWords(words, k + 1, lines,
                                        Append(current_line, words[k]),
                                        max_chars_per_line)
         ELSE WrapFromDroppingLongWords(words, k + 1,
                       IF current_line # <<>> THEN Append(lines, current_line) ELSE lines,
                       <<words[k]>>, max_chars_per_line)

\* lines 195-203: the loop over words[k..] with lines and current_line;
\* current_length is SumOf(current_line)
RECURSIVE WrapFrom(_, _, _, _, _)
WrapFrom(words, k, lines, current_line, max_chars_per_line) ==
    IF k > Len(words)
    THEN IF current_line # <<>> THEN Append(lines, current_line) ELSE lines
    ELSE IF SumOf(current_line) + words[k] + Len(current_line) <= max_chars_per_line
         THEN WrapFrom(words, k + 1, lines, Append(current_line, words[k]),
                       max_chars_per_line)
         ELSE WrapFrom(words, k + 1,
                       IF current_line # <<>> THEN Append(lines, current_line) ELSE lines,
                       <<words[k]>>, max_chars_per_line)

wrap_text(text, max_chars_per_line) == WrapFrom(text, 1, <<>>, <<>>, max_chars_per_line)

\* '\n'.join(lines).split('\n'): no line at all reads back as one empty line
SplitLines(wrapped) == IF wrapped = <<>> THEN << <<>> >> ELSE wrapped

\* ---- create_final_ad_image
\* The background is taken as resized (line 38): one row for each third of the
\* 1080 rows. The logo is its bytes being given or not, and the step of lines
\* 73-106 at which its processing raises, "none" if at none.
LogoSteps == {"open", "convert", "resize", "sample", "paste"}

Backgrounds == [1..Thirds -> Levels]

NoInputs == [image |-> <<>>, hook |-> <<>>, logo_bytes |-> FALSE,
             logo_fails |-> "none", helvetica |-> FALSE]

NoPosition == [name |-> "none", y |-> 0]

NothingComposed ==
    /\ ad_inputs = NoInputs
    /\ text_position = NoPosition
    /\ composites = <<>>

\* lines 47-50: Helvetica if the font file loads, else the default font
load_font(helvetica) == IF helvetica THEN "Helvetica" ELSE "default"

\* lines 56-68: a shadow and a glyph line per wrapped line, 80 apart from y
draw_text(image, hook, helvetica) ==
    LET hook_lines == SplitLines(wrap_text(hook, MaxCharsPerLine))
        y == find_best_text_position(image).y
    IN [font |-> load_font(helvetica),
        lines |-> [k \in 1..Len(hook_lines) |->
                      [y |-> y + 80 * (k - 1), words |-> hook_lines[k]]]]

\* lines 73-106: what the logo block pastes, or that it raised; the region
\* behind the logo lies in the top third
process_logo(image, logo_fails) ==
    IF logo_fails # "none" THEN "raised"
    ELSE IF image[1] < DarkBackground THEN "white_plate"
    ELSE "dark_plate"

\* variant whose later calls start from what the earlier calls drew
create_final_ad_image_on_shared_canvas(inputs) ==
    LET text == draw_text(inputs.image, inputs.hook, inputs.helvetica)
        logo == IF inputs.logo_bytes
                THEN process_logo(inputs.image, inputs.logo_fails) ELSE "none"
        earlier == IF composites = <<>> THEN <<>>
                   ELSE composites[Len(composites)].text.lines
    IN [raised |-> FALSE,
        text |-> [font |-> text.font, lines |-> earlier \o text.lines],
        logo |-> IF logo = "raised" THEN "none" ELSE logo]

\* variant without the try / except around the logo block
create_final_ad_image_unguarded(inputs) ==
    LET text == draw_text(inputs.image, inputs.hook, inputs.helvetica)
        logo == IF inputs.logo_bytes
                THEN process_logo(inputs.image, inputs.logo_fails) ELSE "none"
    IN IF logo = "raised"
       THEN [raised |-> TRUE, text |-> [font |-> text.font, lines |-> <<>>],
             logo |-> "none"]
       ELSE [raised |-> FALSE, text |-> text, logo |-> logo]

\* lines 12-118: the returned image as what was drawn on the background
create_final_ad_image(inputs) ==
    LET text == draw_text(inputs.image, inputs.hook, inputs.helvetica)
        logo == IF inputs.logo_bytes
                THEN process_logo(inputs.image, inputs.logo_fails) ELSE "none"
    IN [raised |-> FALSE, text |-> text,
        logo |-> IF logo = "raised" THEN "none" ELSE logo]

\* ---- actions
\* one call of _find_best_text_position on the image
FindBestTextPosition ==
    /\ text_position = NoPosition
    /\ text_position' = find_best_text_position(ad_inputs.image)
    /\ UNCHANGED <<ad_inputs, composites>>
    /\ UNCHANGED <<compVars, genVars, upVars, library, scored, synth_quota, multi>>

\* one call of create_final_ad_image on the arguments
CreateFinalAdImage ==
    /\ Len(composites) < MaxCalls
    /\ composites' = Append(composites, create_final_ad_image(ad_inputs))
    /\ text_position' = find_best_text_position(ad_inputs.image)
    /\ UNCHANGED ad_inputs
    /\ UNCHANGED <<compVars, genVars, upVars, library, scored, synth_quota, multi>>

\* ====================================================== api/routes/assets
\* a file of the form: "missing" has no filename; "bad_type" has a content type
\* outside ALLOWED_IMAGE_TYPES; "oversize_declared" is over the size limit and
\* its UploadFile carries the size; "oversize_undeclared" is over the limit and
\* its UploadFile has no size (or size 0), so only the bytes read tell
FileKinds == {"missing", "bad_type", "oversize_declared", "oversize_undeclared", "ok"}

BrandFileKinds == FileKinds \ {"missing"}

\* the brand_image lists of a form: files that are all fine, or all but one
BrandFiles ==
    { [k \in 1..n |-> "ok"] : n \in 0..MaxBrandFiles }
    \cup { [k \in 1..n |-> IF k = bad THEN kind ELSE "ok"] :
              n \in 1..MaxBrandFiles, bad \in 1..MaxBrandFiles,
              kind \in BrandFileKinds \ {"ok"} }

NoUpload == [pc |-> "idle", logo |-> "ok", product_image |-> "ok", brand_image |-> <<>>,
             status |-> 0, detail |-> ""]

NothingUploaded ==
    /\ sessions = 0
    /\ bucket_user_assets = 0
    /\ upload = NoUpload

\* variant that takes the size of a file from the bytes when the UploadFile
\* does not carry it
validate_image_file_reading(file) ==
    file \in {"bad_type", "oversize_declared", "oversize_undeclared"}

\* lines 28-53: TRUE when validate_image_file raises HTTPException(400)
validate_image_file(file) == file \in {"bad_type", "oversize_declared"}

\* lines 85-110: the detail of the 400 the checks before the try raise, "" if
\* they raise none
ValidationError(logo, product_image, brand_image) ==
    IF logo = "missing" THEN "Logo is required"
    ELSE IF validate_image_file(logo) THEN "Invalid logo"
    ELSE IF product_image = "missing" THEN "Product image is required"
    ELSE IF validate_image_file(product_image) THEN "Invalid product_image"
    ELSE IF Len(brand_image) < MinBrandImages \/ Len(brand_image) > MaxBrandImages
         THEN "Please upload 3-5 brand images"
    ELSE IF \E k \in 1..Len(brand_image) : validate_image_file(brand_image[k])
         THEN "Invalid brand_image"
    ELSE ""

\* raise HTTPException(code) out of upload_assets
UploadRaise(code, detail) ==
    upload' = [upload EXCEPT !.pc = "done", !.status = code, !.detail = detail]

\* the rest of the state
UploadFrame ==
    UNCHANGED <<compVars, library, scored, synth_quota, multi, imgVars,
                collected, phase, aborted_from, visual_bible, ad_concepts, tasks,
                bucket_generated, generated_ad_sets, calls, bible_calls,
                concept_output, gen_reply>>

\* lines 57-114: the form arrives and is validated
UploadStart ==
    /\ upload.pc = "idle"
    /\ \E logo \in FileKinds, product_image \in FileKinds, brand_image \in BrandFiles :
          LET detail == ValidationError(logo, product_image, brand_image)
              form == [upload EXCEPT !.logo = logo, !.product_image = product_image,
                                     !.brand_image = brand_image]
          IN upload' = IF detail # ""
                       THEN [form EXCEPT !.pc = "done", !.status = 400, !.detail = detail]
                       ELSE [form EXCEPT !.pc = "create_session"]
    /\ UNCHANGED <<sessions, bucket_user_assets, user_assets>>
    /\ UploadFrame

\* lines 116-119 and 242-246: db.create_session()
UploadCreateSession ==
    /\ upload.pc = "create_session"
    /\ \E db_ok \in BOOLEAN :
          IF db_ok
          THEN /\ sessions' = sessions + 1
               /\ upload' = [upload EXCEPT !.pc = "logo"]
          ELSE /\ UploadRaise(500, "Failed to upload assets")
               /\ UNCHANGED sessions
    /\ UNCHANGED <<bucket_user_assets, user_assets>>
    /\ UploadFrame

\* lines 121-154 and 156-189: a required file is read, checked against the size
\* limit, stored, recorded and signed
UploadRequired(asset_type, next_pc) ==
    /\ upload.pc = asset_type
    /\ \E upload_ok \in BOOLEAN, db_ok \in BOOLEAN, sign_ok \in BOOLEAN :
          IF upload[asset_type] = "oversize_undeclared"
          THEN /\ UploadRaise(400, "exceeds maximum size")
               /\ UNCHANGED <<bucket_user_assets, user_assets>>
          ELSE /\ bucket_user_assets' = IF upload_ok THEN bucket_user_assets + 1
                                        ELSE bucket_user_assets
               /\ user_assets' = IF upload_ok /\ db_ok
                                 THEN [user_assets EXCEPT ![asset_type] = TRUE]
                                 ELSE user_assets
               /\ IF upload_ok /\ db_ok /\ sign_ok
                  THEN upload' = [upload EXCEPT !.pc = next_pc]
                  ELSE UploadRaise(500, "Failed to upload assets")
    /\ UNCHANGED sessions
    /\ UploadFrame

\* lines 121-154
UploadLogo == UploadRequired("logo", "product_image")

\* lines 156-189
UploadProductImage == UploadRequired("product_image", "brand_image")

\* lines 191-232, first pass of the loop: the image is read, checked, stored,
\* recorded and signed; then AssetType.BRAND_IMAGE (line 228), which the enum
\* does not have, raises AttributeError, and line 242 turns it into a 500
UploadBrandImage ==
    /\ upload.pc = "brand_image"
    /\ \E upload_ok \in BOOLEAN, db_ok \in BOOLEAN :
          IF upload.brand_image[1] = "oversize_undeclared"
          THEN /\ UploadRaise(400, "exceeds maximum size")
               /\ UNCHANGED <<bucket_user_assets, user_assets>>
          ELSE /\ bucket_user_assets' = IF upload_ok THEN bucket_user_assets + 1
                                        ELSE bucket_user_assets
               /\ user_assets' = IF upload_ok /\ db_ok
                                 THEN [user_assets EXCEPT !.brand_image = @ + 1]
                                 ELSE user_assets
               /\ UploadRaise(500, "Failed to upload assets")
    /\ UNCHANGED sessions
    /\ UploadFrame

\* ===================================================== specifications
InitComp ==
    /\ now = 0
    /\ competitor_ads = <<>>
    /\ bucket_competitor = 0
    /\ req = [r \in Reqs |-> IdleReq]
    /\ running = 0
    /\ reply = NoReply

InitRun ==
    /\ phase = "Idle"
    /\ collected = NoneCollected
    /\ aborted_from = ""
    /\ visual_bible = NoBible
    /\ ad_concepts = <<>>
    /\ tasks = <<>>
    /\ bucket_generated = <<>>
    /\ generated_ad_sets = <<>>
    /\ calls = [text |-> 0, synth |-> 0]
    /\ bible_calls = <<"unset", "unset">>
    /\ concept_output = "unset"
    /\ gen_reply = NoGenReply

\* the competitor routes, for a session that has uploaded nothing
Init ==
    /\ InitComp
    /\ InitRun
    /\ library = [ids |-> NumAdIds, size |-> MaxAds]
    /\ NothingUploaded
    /\ scored = NoScore
    /\ multi = IdleMulti
    /\ synth_quota = Unlimited
    /\ NothingComposed
    /\ user_assets = [brand_image |-> 0, logo |-> FALSE, product_image |-> FALSE]

Next ==
    /\ \/ Tick
       \/ \E r \in Reqs : AnalyzeStart(r)
       \/ \E r \in Reqs : FetchReturn(r)
       \/ \E r \in Reqs : LoopExisting(r)
       \/ \E r \in Reqs : LoopDownload(r)
       \/ \E r \in Reqs : LoopInsert(r)
       \/ \E r \in Reqs : DownloadReturn(r)
       \/ GetCompetitorAds
    /\ UNCHANGED <<genVars, envVars>>

Spec == Init /\ [][Next]_vars

\* Calls that do not overlap: a call starts only when no other call is under way.
NoCallUnderWay == \A q \in Reqs : req[q].pc \in {"idle", "done"}

NextSeq ==
    /\ \/ \E r \in Reqs : NoCallUnderWay /\ AnalyzeStart(r)
       \/ \E r \in Reqs : FetchReturn(r)
       \/ \E r \in Reqs : LoopExisting(r)
       \/ \E r \in Reqs : LoopDownload(r)
       \/ \E r \in Reqs : LoopInsert(r)
       \/ \E r \in Reqs : DownloadReturn(r)
    /\ UNCHANGED <<genVars, envVars>>

SpecSeq == Init /\ [][NextSeq]_vars

\* one call and read-backs, for a page whose search returns up to MaxFetched
\* ads or for a page with MaxTieIds distinct ads
InitTop ==
    /\ now = 0
    /\ competitor_ads = <<>>
    /\ bucket_competitor = 0
    /\ req = [r \in Reqs |-> IF r = 1 THEN IdleReq ELSE DoneReq]
    /\ running = 0
    /\ reply = NoReply
    /\ InitRun
    /\ user_assets = [brand_image |-> 0, logo |-> FALSE, product_image |-> FALSE]
    /\ library \in { [ids |-> NumAdIds, size |-> MaxFetched],
                      [ids |-> MaxTieIds, size |-> MaxAds + 1] }
    /\ NothingUploaded
    /\ scored = NoScore
    /\ multi = IdleMulti
    /\ synth_quota = Unlimited
    /\ NothingComposed

\* calls that do not overlap, read-backs between them, and the clock
NextTop ==
    \/ NextSeq
    \/ Tick /\ UNCHANGED <<genVars, envVars>>
    \/ /\ NoCallUnderWay
       /\ GetCompetitorAds
       /\ UNCHANGED <<genVars, envVars>>

SpecTop == InitTop /\ [][NextTop]_vars

\* calculate_winner_score on its own, as the clock advances
NextScore ==
    \/ Tick /\ UNCHANGED <<genVars, envVars>>
    \/ ScoreAd

SpecScore == Init /\ [][NextScore]_vars

\* _find_best_text_position on every image of up to MaxHeight rows
InitBand ==
    /\ InitComp
    /\ InitRun
    /\ library = [ids |-> NumAdIds, size |-> MaxAds]
    /\ NothingUploaded
    /\ scored = NoScore
    /\ multi = IdleMulti
    /\ synth_quota = Unlimited
    /\ \E n \in 0..MaxHeight : \E image \in [1..n -> Levels] :
           ad_inputs = [NoInputs EXCEPT !.image = image]
    /\ text_position = NoPosition
    /\ composites = <<>>
    /\ user_assets = [brand_image |-> 0, logo |-> FALSE, product_image |-> FALSE]

SpecBand == InitBand /\ [][FindBestTextPosition]_vars

\* create_final_ad_image called repeatedly on one choice of arguments
InitCompose ==
    /\ InitComp
    /\ InitRun
    /\ library = [ids |-> NumAdIds, size |-> MaxAds]
    /\ NothingUploaded
    /\ scored = NoScore
    /\ multi = IdleMulti
    /\ synth_quota = Unlimited
    /\ \E image \in Backgrounds, hook \in Hooks, helvetica \in BOOLEAN :
           \/ ad_inputs = [image |-> image, hook |-> hook, logo_bytes |-> FALSE,
                           logo_fails |-> "none", helvetica |-> helvetica]
           \/ \E step \in LogoSteps \cup {"none"} :
                  ad_inputs = [image |-> image, hook |-> hook, logo_bytes |-> TRUE,
                               logo_fails |-> step, helvetica |-> helvetica]
    /\ text_position = NoPosition
    /\ composites = <<>>
    /\ user_assets = [brand_image |-> 0, logo |-> FALSE, product_image |-> FALSE]

SpecCompose == InitCompose /\ [][CreateFinalAdImage]_vars

\* one generation run, for a session left by upload_assets with any of its rows
InitGen ==
    /\ InitComp
    /\ InitRun
    /\ user_assets \in [brand_image : 0..MaxBrandAssets, logo : BOOLEAN,
                        product_image : BOOLEAN]
    /\ library = [ids |-> NumAdIds, size |-> MaxAds]
    /\ NothingUploaded
    /\ scored = NoScore
    /\ multi = IdleMulti
    /\ synth_quota = Unlimited
    /\ NothingComposed

NextGen ==
    /\ \/ StartRun
       \/ CollectInputs
       \/ ExtractStyle
       \/ GenerateConcepts
       \/ \E i \in 1..MaxConcepts : i <= Len(tasks) /\ TaskStart(i)
       \/ \E i \in 1..MaxConcepts : i <= Len(tasks) /\ TaskFinish(i)
       \/ Gather
       \/ Persist
    /\ UNCHANGED <<compVars, envVars>>

SpecGen == InitGen /\ [][NextGen]_vars

\* one generation run of a session with all its assets, against an image model
\* whose quota admits up to MaxQuota more calls
InitQuota ==
    /\ InitComp
    /\ InitRun
    /\ user_assets = [brand_image |-> 1, logo |-> TRUE, product_image |-> TRUE]
    /\ library = [ids |-> NumAdIds, size |-> MaxAds]
    /\ NothingUploaded
    /\ scored = NoScore
    /\ multi = IdleMulti
    /\ synth_quota \in {[limited |-> TRUE, calls |-> q] : q \in 0..MaxQuota}
    /\ NothingComposed

SpecQuota == InitQuota /\ [][NextGen]_vars

\* one call of generate_multiple_ads
InitMulti ==
    /\ InitComp
    /\ InitRun
    /\ user_assets = [brand_image |-> 0, logo |-> FALSE, product_image |-> FALSE]
    /\ library = [ids |-> NumAdIds, size |-> MaxAds]
    /\ NothingUploaded
    /\ scored = NoScore
    /\ synth_quota = Unlimited
    /\ \E n \in 0..MaxVariations : multi = [IdleMulti EXCEPT !.num_variations = n]
    /\ NothingComposed

NextMulti == MultiStart \/ MultiIteration \/ MultiReturn

SpecMulti == InitMulti /\ [][NextMulti]_vars

\* one call of upload_assets, for any form
InitUpload ==
    /\ InitComp
    /\ InitRun
    /\ user_assets = [brand_image |-> 0, logo |-> FALSE, product_image |-> FALSE]
    /\ library = [ids |-> NumAdIds, size |-> MaxAds]
    /\ NothingUploaded
    /\ scored = NoScore
    /\ multi = IdleMulti
    /\ synth_quota = Unlimited
    /\ NothingComposed

NextUpload ==
    \/ UploadStart
    \/ UploadCreateSession
    \/ UploadLogo
    \/ UploadProductImage
    \/ UploadBrandImage

SpecUpload == InitUpload /\ [][NextUpload]_vars

\* the event loop keeps running the request until it has replied
SpecGenFair == SpecGen /\ WF_vars(NextGen)

\* ------------------------------------------------------------- claims
RowsFor(session_id, ad_id) ==
    { k \in 1..Len(competitor_ads) :
        competitor_ads[k].session_id = session_id /\ competitor_ads[k].ad_id = ad_id }

\* every entry a call has built so far or has returned
EntriesOf(session_id, ads) == { [session_id |-> session_id, e |-> ads[k]] : k \in 1..Len(ads) }

AllEntries ==
    EntriesOf(reply.session_id, reply.competitor_ads)
    \cup UNION { EntriesOf(req[r].session_id, req[r].competitor_ads) : r \in Reqs }

\* C1: under any interleaving of concurrent analyze_competitor requests for one
\* session, the table competitor_ads holds at most one row per (session_id, ad_id).
C1_AtMostOneRowPerKey ==
    \A session_id \in Sessions, ad_id \in AdIds :
        Cardinality(RowsFor(session_id, ad_id)) <= 1

\* C9: when calls do not overlap, the table holds at most one row per
\* (session_id, ad_id), and an entry built for an already-stored key carries the
\* id of the first row stored for that key (no row was created for it).
C9_SequentialDedup ==
    /\ \A j, k \in 1..Len(competitor_ads) :
          ( /\ competitor_ads[j].session_id = competitor_ads[k].session_id
            /\ competitor_ads[j].ad_id = competitor_ads[k].ad_id ) => j = k
    /\ \A x \in AllEntries :
          /\ RowsFor(x.session_id, x.e.ad_id) # {}
          /\ x.e.id = CHOOSE k \in RowsFor(x.session_id, x.e.ad_id) :
                         \A j \in RowsFor(x.session_id, x.e.ad_id) : k <= j

\* a later call whose search result is one ad met the row an earlier call stored
C9_Witness ==
    /\ reply.status = 200
    /\ reply.ads_found = 1
    /\ reply.competitor_ads[1].existing
    /\ \A q \in Reqs : req[q].pc = "done"

\* C10: an entry returned for an already-persisted key carries the persisted
\* row's winner_score and is_active, not values computed from the new fetch.
C10_ExistingEntryUnchanged ==
    \A x \in AllEntries :
        x.e.existing =>
            /\ x.e.winner_score = competitor_ads[x.e.id].winner_score
            /\ x.e.is_active = competitor_ads[x.e.id].is_active

\* ------------------------------------------------- claims: generation run
\* the fan-out of the run is over
FanOutDone == phase \in {"Persisting", "Complete"} \/ aborted_from = "Persisting"

N == Len(ad_concepts)

\* the hook an ad shows for a concept (line 197, line 212)
HookShown(concept) == IF concept.hook = "missing" THEN "" ELSE concept.hook

\* asset i has an image in the store with the given content
Carries(ads, i, content) ==
    /\ ads[i].image_url
    /\ ads[i].image_path \in 1..Len(bucket_generated)
    /\ bucket_generated[ads[i].image_path].content = content

C5_AbortedRunWroteNothing ==
    phase = "Aborted" => /\ bucket_generated = <<>>
                         /\ generated_ad_sets = <<>>

C7_UnparsableAbortsBeforeFanOut ==
    concept_output = "unparsable" =>
        /\ phase = "Aborted"
        /\ aborted_from = "GeneratingConcepts"
        /\ gen_reply.status = 500
        /\ ad_concepts = <<>>
        /\ tasks = <<>>
        /\ calls.synth = 0
        /\ bucket_generated = <<>>
        /\ generated_ad_sets = <<>>

C7_Witness ==
    /\ concept_output = "unparsable"
    /\ phase = "Aborted"
    /\ bible_calls = <<"text", "text">>

\* C8: when either text-completion call of create_visual_bible raised or gave
\* empty or absent text, the directive returned has the non-empty
\* style_directive built from brand name and product description, and the run
\* went on to concept generation.
C8_DegradedDirectiveOnUnusableText ==
    (\E k \in 1..2 : bible_calls[k] \in {"raise", "none", "empty"}) =>
        /\ visual_bible.style_directive = "fallback"
        /\ phase # "ExtractingStyle"
        /\ aborted_from # "ExtractingStyle"

\* ------------------------------------------------------- claims: scoring
\* ticks between the delivery start scored last and the clock at that call
ScoredAge == scored.now - scored.start_date.t

\* C11: a candidate whose delivery start lies fewer than 7 whole days before
\* now is scored 0, whether it is active or not.
C11_YoungAdScoresZero ==
    ( /\ scored.now >= 0
      /\ scored.start_date.kind = "iso"
      /\ ScoredAge < MinDays * TicksPerDay )
    => /\ scored.winner_score = 0
       /\ scored.twin_score = 0

C11_Witness ==
    /\ scored.now >= 0
    /\ scored.start_date.kind = "iso"
    /\ ScoredAge = MinDays * TicksPerDay - 1
    /\ scored.is_active
    /\ scored.winner_score = 0

\* C12: of two candidates with the same delivery start that differ in is_active
\* only, the active one scores exactly 1.5 times the inactive one: days_running
\* * 1.5 against days_running * 1.0 from 7 days on (scores are carried doubled).
C12_ActiveIsOneAndHalfTimesInactive ==
    scored.now >= 0 =>
        LET active2 == IF scored.is_active THEN scored.winner_score ELSE scored.twin_score
            inactive2 == IF scored.is_active THEN scored.twin_score ELSE scored.winner_score
        IN /\ 2 * active2 = 3 * inactive2
           /\ ( scored.start_date.kind = "iso" /\ ScoredAge >= MinDays * TicksPerDay )
              => /\ active2 = 3 * (ScoredAge \div TicksPerDay)
                 /\ inactive2 = 2 * (ScoredAge \div TicksPerDay)

C12_Witness ==
    /\ scored.now >= 0
    /\ scored.start_date.kind = "iso"
    /\ ScoredAge \div TicksPerDay = MaxStartDays
    /\ scored.is_active
    /\ scored.winner_score = 3 * MaxStartDays
    /\ scored.twin_score = 2 * MaxStartDays

\* ------------------------------------------------ claims: returned lists
\* the reply is a list of competitor ads
ListReply == reply.status = 200 /\ reply.route \in {"analyze", "read"}

NonIncreasing(ads) ==
    \A j, k \in 1..Len(ads) : j < k => ads[j].winner_score >= ads[k].winner_score

\* the entries of ads whose score is s, in the order they have in ads
WithScore(ads, s) == SelectSeq(ads, LAMBDA e : e.winner_score = s)

IsPrefix(a, b) == Len(a) <= Len(b) /\ a = SubSeq(b, 1, Len(a))

CountAtLeast(ads, s) == Cardinality({ k \in 1..Len(ads) : ads[k].winner_score >= s })

CountOf(ads, ad) == Cardinality({ k \in 1..Len(ads) : ads[k] = ad })

Smaller(a, b) == IF a < b THEN a ELSE b

\* C13: every returned list is non-increasing in winner_score, and entries with
\* equal winner_score appear in the order they were fetched from the ad library:
\* for analyze_competitor the order of the search result, for get_competitor_ads
\* the order in which the rows were stored.
C13_SortedStableInFetchOrder ==
    ListReply =>
        /\ NonIncreasing(reply.competitor_ads)
        /\ reply.route = "analyze" =>
              \A k \in 1..Len(reply.competitor_ads) :
                 LET s == reply.competitor_ads[k].winner_score
                 IN IsPrefix(WithScore(reply.competitor_ads, s), WithScore(reply.unsorted, s))
        /\ reply.route = "read" =>
              \A j, k \in 1..Len(reply.competitor_ads) :
                 ( /\ j < k
                   /\ reply.competitor_ads[j].winner_score = reply.competitor_ads[k].winner_score )
                 => reply.competitor_ads[j].id < reply.competitor_ads[k].id

\* C14: analyze_competitor returns at most 5 ads, the 5 with the highest scores
\* of the candidates it scored (no candidate left out scores higher than one
\* returned); every candidate it scored has its row in the session, and a
\* read-back of the session returns every row of the session.
C14_TopFiveAndAllPersisted ==
    /\ (reply.route = "analyze" /\ reply.status = 200) =>
          /\ Len(reply.competitor_ads) = Smaller(Len(reply.unsorted), TopK)
          /\ \A k \in 1..Len(reply.unsorted) :
                LET s == reply.unsorted[k].winner_score
                IN /\ CountAtLeast(reply.competitor_ads, s)
                        = Smaller(TopK, CountAtLeast(reply.unsorted, s))
                   /\ CountOf(reply.competitor_ads, reply.unsorted[k])
                        <= CountOf(reply.unsorted, reply.unsorted[k])
          /\ \A k \in 1..Len(reply.competitor_ads) :
                \E j \in 1..Len(reply.unsorted) : reply.unsorted[j] = reply.competitor_ads[k]
          /\ \A k \in 1..Len(reply.unsorted) :
                /\ reply.unsorted[k].id \in 1..Len(competitor_ads)
                /\ competitor_ads[reply.unsorted[k].id].session_id = reply.session_id
                /\ competitor_ads[reply.unsorted[k].id].ad_id = reply.unsorted[k].ad_id
    /\ (reply.route = "read" /\ reply.status = 200 /\ NoCallUnderWay) =>
          /\ { reply.competitor_ads[k].id : k \in 1..Len(reply.competitor_ads) }
                = { k \in 1..Len(competitor_ads) :
                      competitor_ads[k].session_id = reply.session_id }
          /\ Len(reply.competitor_ads)
                = Cardinality({ k \in 1..Len(competitor_ads) :
                                  competitor_ads[k].session_id = reply.session_id })

C14_Witness ==
    /\ reply.route = "analyze"
    /\ reply.status = 200
    /\ Len(reply.unsorted) = MaxFetched
    /\ Len(reply.competitor_ads) = TopK
    /\ reply.unsorted[1].winner_score = 0
    /\ \A k \in 1..TopK : reply.competitor_ads[k].winner_score > 0

\* C15: every entry of a returned list that reports days_running under 7 has
\* winner_score 0: entries for new rows, entries built from a row that existed,
\* entries read back, and entries without a usable delivery start.
C15_ZeroScoreUnderSevenDays ==
    ListReply =>
        /\ \A k \in 1..Len(reply.competitor_ads) :
              reply.competitor_ads[k].days_running < MinDays
                 => reply.competitor_ads[k].winner_score = 0
        /\ \A k \in 1..Len(reply.unsorted) :
              reply.unsorted[k].days_running < MinDays
                 => reply.unsorted[k].winner_score = 0

C15_Witness ==
    /\ reply.route = "analyze"
    /\ reply.status = 200
    /\ \E j, k \in 1..Len(reply.competitor_ads) :
          /\ reply.competitor_ads[j].existing
          /\ reply.competitor_ads[j].ad_delivery_start.kind = "iso"
          /\ reply.competitor_ads[j].days_running = MinDays - 1
          /\ reply.competitor_ads[j].winner_score = 0
          /\ reply.competitor_ads[k].ad_delivery_start.kind = "absent"
          /\ reply.competitor_ads[k].days_running < MinDays
          /\ reply.competitor_ads[k].winner_score = 0

\* C16: when the search returns no candidate, analyze_competitor replies 404
\* "No ads found" after its one search; the call has stored no row and uploaded
\* no image, and it is over: it does not search again.
C16_NoCandidatesFound ==
    /\ [](reply.detail = "No ads found" =>
             /\ reply.route = "analyze"
             /\ reply.status = 404
             /\ reply.searches = 1
             /\ reply.competitor_ads = <<>>
             /\ reply.ads_downloaded = 0)
    /\ [][\A r \in Reqs :
             /\ ( /\ req[r].pc = "fetching"
                  /\ req'[r].pc = "done"
                  /\ reply'.detail = "No ads found" )
                => /\ competitor_ads' = competitor_ads
                   /\ bucket_competitor' = bucket_competitor
                   /\ req[r].competitor_ads = <<>>
                   /\ req[r].download_count = 0
                   /\ req[r].searches = 1
             /\ req[r].pc = "fetching" => req'[r].pc # "fetching" \/ req'[r] = req[r]
             /\ req[r].pc = "done" => req'[r].pc = "done"]_vars

C16_Witness ==
    /\ reply.detail = "No ads found"
    /\ reply.status = 404
    /\ competitor_ads = <<>>
    /\ bucket_competitor = 0
    /\ \A r \in Reqs : req[r].pc = "done"

\* ------------------------------------------------------------------ C17
\* the region of the image that _find_best_text_position returned
Selected == CHOOSE region \in {Regions(ad_inputs.image)[k] : k \in 1..Thirds} :
                region.name = text_position.name

\* a region with pixels whose mean brightness lies in [50, 200]
InRange(pixels) == pixels # <<>> /\ ~OutOfRange(pixels)

\* C17: _find_best_text_position never selects a band whose mean luminance is
\* outside [50, 200] when some band whose mean luminance is inside [50, 200]
\* has a score of at least 0.
C17_NoOutOfRangeBandOverInRangeBand ==
    text_position # NoPosition =>
        ~ /\ Selected.pixels # <<>>
          /\ OutOfRange(Selected.pixels)
          /\ \E k \in 1..Thirds :
                 LET pixels == Regions(ad_inputs.image)[k].pixels
                 IN InRange(pixels) /\ RegionScore(pixels).num >= 0

\* ------------------------------------------------------------------ C18
\* the regions that have pixels, which are the ones the loop scores
Scored == {k \in 1..Thirds : Regions(ad_inputs.image)[k].pixels # <<>>}

ScoreOf(k) == RegionScore(Regions(ad_inputs.image)[k].pixels)

\* the regions whose score is greater than the initial best_score of -1
BeatsInitial == {k \in Scored : Greater(ScoreOf(k), [num |-> 0 - 1, den |-> 1])}

\* C18: _find_best_text_position returns the band with the maximum score
\* 1000 - variance - brightness_penalty, and the bottom band when no band
\* scores more than the initial minimum of -1.
C18_MaximumScoreElseBottom ==
    text_position # NoPosition =>
        IF BeatsInitial = {}
        THEN /\ text_position.name = "bottom"
             /\ text_position.y = Len(ad_inputs.image) - 220
        ELSE /\ Selected.pixels # <<>>
             /\ text_position.y = Selected.y
             /\ \A k \in Scored : ~Greater(ScoreOf(k), RegionScore(Selected.pixels))

\* the middle band was returned because it alone has the highest score
C18_Witness ==
    /\ text_position.name = "middle"
    /\ Scored = 1..Thirds
    /\ Greater(ScoreOf(2), ScoreOf(1))
    /\ Greater(ScoreOf(2), ScoreOf(3))
    /\ Greater(ScoreOf(1), ScoreOf(3))

\* the bottom band was returned although the top band scores more, no band
\* scoring more than -1
C18_DefaultReached ==
    /\ text_position.name = "bottom"
    /\ Scored = 1..Thirds
    /\ BeatsInitial = {}
    /\ Greater(ScoreOf(1), ScoreOf(3))

RECURSIVE WordsDrawn(_)
WordsDrawn(lines) ==
    IF lines = <<>> THEN <<>> ELSE Head(lines).words \o WordsDrawn(Tail(lines))

\* C20: when processing the logo fails at any step (opening, converting,
\* resizing, sampling or pasting), create_final_ad_image does not raise and
\* returns the composite with the hook drawn and neither logo nor plate on it.
C20_LogoFailureLeavesNoLogo ==
    (ad_inputs.logo_bytes /\ ad_inputs.logo_fails \in LogoSteps) =>
        \A i \in DOMAIN composites :
            /\ ~composites[i].raised
            /\ composites[i].logo = "none"
            /\ composites[i].text.lines # <<>>
            /\ WordsDrawn(composites[i].text.lines) = ad_inputs.hook

\* a call returned although pasting the logo failed, with a hook of two lines
C20_Witness ==
    /\ composites # <<>>
    /\ ad_inputs.logo_bytes
    /\ ad_inputs.logo_fails = "paste"
    /\ Len(composites[1].text.lines) >= 2

\* ------------------------------------------------------------------ C21
AllTasksDone == \A i \in 1..Len(tasks) : tasks[i].pc = "done"

SomeCallRateLimited == \E i \in 1..Len(tasks) : tasks[i].synth = "rate_limited"

\* C22: when an image-synthesis call of a generation run fails with a quota or
\* rate-limit signature, the caller of the run gets a RateLimited outcome, which
\* is neither the reply of a successful run (200) nor that of a generic failure
\* (500).
C22_RateLimitedOutcome ==
    (phase \in {"Complete", "Aborted"} /\ SomeCallRateLimited) =>
        gen_reply.status \notin {200, 500}

\* ------------------------------------------------------------------ C23
\* C23: in generate_multiple_ads, once a synthesis call raises RateLimitError
\* no further synthesis call is made, the failed call is not retried (every
\* variation is attempted at most once, in order), and RateLimitError leaves
\* generate_multiple_ads.
C23_RateLimitStopsTheLoop ==
    /\ \A k \in 1..Len(multi.attempts) :
          /\ multi.attempts[k].variation = k - 1
          /\ multi.attempts[k].rate_limit_error =>
                /\ k = Len(multi.attempts)
                /\ multi.pc = "raised"
    /\ multi.pc = "raised" =>
          /\ multi.attempts # <<>>
          /\ multi.attempts[Len(multi.attempts)].rate_limit_error
    /\ multi.pc = "returned" => Len(multi.attempts) = multi.num_variations

\* the second call raised RateLimitError with a variation still to go, after a
\* first call that gave an image
C23_Witness ==
    /\ multi.pc = "raised"
    /\ Len(multi.attempts) = 2
    /\ multi.num_variations >= 3
    /\ multi.generated_images = 1

\* ------------------------------------------------------------------ C24
\* the run has read its inputs and one of the required ones is not there
InputMissing ==
    /\ phase \notin {"Idle", "CollectingInputs"}
    /\ \/ ~collected.session
       \/ collected.brand_images = 0
       \/ ~collected.logo
       \/ ~collected.product_image

\* C24: when the session is unknown, or has no downloadable brand image, logo
\* or product image, generate_ad_angles rejects the request before any
\* text-completion or image-synthesis call and without writing to the object
\* store or the record store.
C24_RejectedBeforeAnyCall ==
    /\ InputMissing =>
          /\ phase = "Aborted"
          /\ aborted_from = "CollectingInputs"
          /\ ~collected.session => gen_reply.status = 404
          /\ gen_reply.status \in {400, 404, 500}
          /\ calls = [text |-> 0, synth |-> 0]
          /\ bible_calls = <<"unset", "unset">>
          /\ tasks = <<>>
          /\ bucket_generated = <<>>
          /\ generated_ad_sets = <<>>
    /\ collected.brand_images <= user_assets.brand_image
    /\ collected.logo => user_assets.logo
    /\ collected.product_image => user_assets.product_image

\* rejected with 400 because the stored product image could not be downloaded
C24_Witness ==
    /\ phase = "Aborted"
    /\ gen_reply.status = 400
    /\ collected.brand_images >= 1
    /\ collected.logo
    /\ user_assets.product_image
    /\ ~collected.product_image

\* ------------------------------------------------------------------ C25
\* create_visual_bible has returned its minimal guide
FellBack ==
    /\ phase \notin {"Idle", "CollectingInputs", "ExtractingStyle"}
    /\ aborted_from # "CollectingInputs"
    /\ visual_bible.style_directive = "fallback"

\* the keys of the dict create_visual_bible returns from its model calls
DirectiveKeys == {"full_analysis", "style_directive", "brand_name", "num_reference_images"}

\* C25: whenever create_visual_bible falls back to the minimal directive, the
\* result it returns marks the style source as degraded: it carries a key that
\* a model-derived result does not carry.
C25_FallbackMarkedDegraded ==
    FellBack => DOMAIN visual_bible # DirectiveKeys

\* ------------------------------------------------------------------ C26
\* competitors.py line 97: the active_status analyze_competitor searches with
SearchActiveStatus == "all"

\* C26: a candidate whose active status is unknown (process_ad_data reads no
\* status from the raw ad) is given is_active = true only when the search was
\* pre-filtered to active ads; with active_status "all", as analyze_competitor
\* searches, the candidate is given is_active = false, in the entry returned
\* and in the row stored, and its score has no 1.5 multiplier.
C26_UnknownStatusInactiveUnlessFiltered ==
    SearchActiveStatus # "active" =>
        /\ \A x \in AllEntries : ~x.e.existing => ~x.e.is_active
        /\ \A k \in 1..Len(competitor_ads) : ~competitor_ads[k].is_active

\* ------------------------------------------------------------------ C27
\* C27: a candidate whose image URL is missing, unparsable or cannot be
\* downloaded is still persisted, with no storage path, and the analyze request
\* goes on to the remaining candidates: no request fails over an image URL.
C27_ImageFailureKeepsCandidate ==
    /\ reply.route = "analyze" => reply.detail # "Failed to analyze: invalid URL"
    /\ \A k \in 1..Len(competitor_ads) :
          ~RawAd(competitor_ads[k].ad_id).image_url => ~competitor_ads[k].storage_path

\* ------------------------------------------------------------------ C28
\* generate_ad_concepts has returned a batch to generate_ad_angles
BatchHandedOver ==
    phase \in {"SynthesizingImages", "Persisting", "Complete"} \/ aborted_from = "Persisting"

\* C28: every concept batch that generate_ad_concepts hands to the orchestrator
\* has between 1 and 5 concepts; a run never enters the synthesis fan-out with
\* zero concepts or with more than five.
C28_BatchOfOneToFive ==
    BatchHandedOver =>
        /\ Len(ad_concepts) >= 1
        /\ Len(ad_concepts) <= MaxConcepts
        /\ Len(tasks) = Len(ad_concepts)

\* ------------------------------------------------------------------ C29
\* C29: every asset of a completed run has a non-empty hook: a concept whose
\* hook is missing or empty yields no asset in the run's result nor in the
\* persisted run record.
C29_EveryAssetHasAHook ==
    phase = "Complete" =>
        /\ \A k \in 1..Len(gen_reply.ads) : gen_reply.ads[k].hook # ""
        /\ \A k \in 1..Len(generated_ad_sets[1].ads) : generated_ad_sets[1].ads[k].hook # ""

\* ------------------------------------------------------------------ C30
\* C30: the image persisted for each asset of a completed run is the output of
\* one Compositor pass over that concept's synthesized background (hook text
\* and logo burned in), not the raw synthesizer output.
C30_PersistedImageIsComposited ==
    phase = "Complete" =>
        \A k \in 1..Len(generated_ad_sets[1].ads) :
            LET ad == generated_ad_sets[1].ads[k]
            IN ad.image_url =>
                  /\ bucket_generated[ad.image_path].concept = k
                  /\ bucket_generated[ad.image_path].composited

\* ------------------------------------------------------------------ C31
\* the coroutines of the run that have called generate_ad_image
Started == {i \in 1..Len(tasks) : tasks[i].pc # "pending"}

\* C31: in a generation run image synthesis is invoked exactly once per
\* concept, also when the invocation fails: a coroutine that has started has
\* made one call, one that has not has made none, the calls of the run are one
\* per started coroutine, and once the fan-out is over they are one per concept.
C31_OneSynthesisCallPerConcept ==
    /\ \A i \in 1..Len(tasks) :
          tasks[i].synth_calls = (IF i \in Started THEN 1 ELSE 0)
    /\ calls.synth = Cardinality(Started)
    /\ FanOutDone => calls.synth = N

\* the fan-out of a run of two concepts is over, the synthesis of the first
\* concept having failed and that of the second not
C31_Witness ==
    /\ FanOutDone
    /\ N = 2
    /\ tasks[1].synth = "failed" /\ tasks[1].synth_calls = 1
    /\ tasks[2].synth = "ok" /\ tasks[2].synth_calls = 1
    /\ calls.synth = 2

\* ------------------------------------------------------------------ C32
\* the coroutines whose call of generate_ad_image has not returned
InFlight == {i \in 1..Len(tasks) : tasks[i].pc = "synthesizing"}

\* C32: the per-concept synthesis tasks of a run are launched concurrently:
\* while the synthesis call of one concept is in flight, the task of any other
\* concept that has not started yet can start and make its call.
C32_SynthesisCallsOverlap ==
    \A i \in InFlight : \A j \in 1..Len(tasks) :
        tasks[j].pc = "pending" => ENABLED TaskStart(j)

\* ------------------------------------------------------------------ C33
\* the stages in the order generate_ad_angles goes through them
StageRank(stage) ==
    CASE stage = "Idle" -> 0
      [] stage = "CollectingInputs" -> 1
      [] stage = "ExtractingStyle" -> 2
      [] stage = "GeneratingConcepts" -> 3
      [] stage = "SynthesizingImages" -> 4
      [] stage = "Persisting" -> 5
      [] stage \in {"Complete", "Aborted"} -> 6

\* C33: in every generation run style extraction finishes before concept
\* generation starts, concept generation finishes before any synthesis task
\* starts, and the run record is written last; no earlier stage is re-entered:
\* a step never moves to an earlier stage, the calls of style extraction, of
\* concept generation and of synthesis are made only in their own stages, the
\* coroutines change only while the run is synthesizing, and the write of the
\* run record ends the run.
C33_StagesInOrder ==
    [][ /\ StageRank(phase') >= StageRank(phase)
        /\ bible_calls' # bible_calls =>
              phase = "ExtractingStyle" /\ phase' = "GeneratingConcepts"
        /\ concept_output' # concept_output =>
              /\ phase = "GeneratingConcepts"
              /\ phase' \in {"SynthesizingImages", "Aborted"}
        /\ calls'.text # calls.text => phase \in {"ExtractingStyle", "GeneratingConcepts"}
        /\ ad_concepts' # ad_concepts => phase = "GeneratingConcepts"
        /\ (calls'.synth # calls.synth \/ bucket_generated' # bucket_generated) =>
              phase = "SynthesizingImages" /\ phase' = "SynthesizingImages"
        /\ (tasks' # tasks /\ phase # "GeneratingConcepts") =>
              phase = "SynthesizingImages" /\ phase' = "SynthesizingImages"
        /\ generated_ad_sets' # generated_ad_sets =>
              phase = "Persisting" /\ phase' = "Complete"
      ]_vars

\* a run of two concepts went through every stage: three text-completion calls,
\* two synthesis calls, two stored images and the run record
C33_Witness ==
    /\ phase = "Complete"
    /\ calls = [text |-> 3, synth |-> 2]
    /\ Len(bucket_generated) = 2
    /\ Len(generated_ad_sets) = 1

\* ------------------------------------------------------------------ C34
\* the words of the lines, in reading order
RECURSIVE WordsOf(_)
WordsOf(lines) == IF lines = <<>> THEN <<>> ELSE Head(lines) \o WordsOf(Tail(lines))

\* C34: _wrap_text keeps every word of the hook exactly once and in its
\* original order, and every line it produces has at most 25 characters, except
\* a line that is one word longer than 25 characters; the lines drawn by
\* create_final_ad_image are these lines.
C34_WrapKeepsWordsAndWidth ==
    \A i \in DOMAIN composites :
        LET lines == wrap_text(ad_inputs.hook, MaxCharsPerLine)
        IN /\ WordsOf(lines) = ad_inputs.hook
           /\ \A k \in 1..Len(lines) :
                 /\ lines[k] # <<>>
                 /\ \/ LineLength(lines[k]) <= MaxCharsPerLine
                    \/ Len(lines[k]) = 1 /\ lines[k][1] > MaxCharsPerLine
           /\ [k \in 1..Len(composites[i].text.lines) |->
                  composites[i].text.lines[k].words] = SplitLines(lines)

\* a hook was drawn whose first two words fill a line exactly and whose third
\* word is longer than a line
C34_Witness ==
    /\ composites # <<>>
    /\ ad_inputs.hook = <<12, 12, 26>>
    /\ Len(composites[1].text.lines) = 2
    /\ composites[1].text.lines[1].words = <<12, 12>>
    /\ composites[1].text.lines[2].words = <<26>>

\* ------------------------------------------------------------------ C35
\* upload_assets rejected the form with a validation error
UploadRejected == upload.pc = "done" /\ upload.status = 400

\* C35: an upload_assets request rejected with a validation error (missing
\* file, disallowed type, brand-image count outside 3..5, or a file over the
\* size limit) creates no session record and stores no asset in the object
\* store or the record store.
C35_RejectedUploadStoresNothing ==
    UploadRejected =>
        /\ sessions = 0
        /\ bucket_user_assets = 0
        /\ user_assets = [brand_image |-> 0, logo |-> FALSE, product_image |-> FALSE]

\* ------------------------------------------------------------------ C36
\* the assets of the result whose image_path is the stored object p
ReferencedBy(ads, p) == {k \in 1..Len(ads) : ads[k].image_path = p}

\* C36: every image a generation run uploaded to the generated-ads bucket is
\* referenced by the image_path of exactly one asset of the run's result, and
\* an asset has an image_url exactly when it has an image_path.
C36_EveryUploadReferencedOnce ==
    phase = "Complete" =>
        /\ \A p \in 1..Len(bucket_generated) :
              Cardinality(ReferencedBy(gen_reply.ads, p)) = 1
        /\ \A k \in 1..Len(gen_reply.ads) :
              gen_reply.ads[k].image_url <=> gen_reply.ads[k].image_path # 0

\* ------------------------------------------------------------------ C37
\* analyze_competitor returned a list
AnalyzeReturned == reply.route = "analyze" /\ reply.status = 200

\* C37: the list returned by one analyze_competitor call never contains two
\* entries with the same record id, also when the search result lists the same
\* external ad identifier more than once.
C37_NoRecordIdTwice ==
    AnalyzeReturned =>
        \A j, k \in 1..Len(reply.competitor_ads) :
            reply.competitor_ads[j].id = reply.competitor_ads[k].id => j = k

\* ------------------------------------------------------------------ C38
\* the run has ended
Terminated == phase \in {"Complete", "Aborted"}

\* C38: provided every external call returns or raises, every generation run
\* terminates in Complete or Aborted, whatever tasks have failed: the run
\* reaches one of the two and stays there.
C38_EveryRunTerminates == <>[]Terminated

\* a run of two concepts completed although the synthesis of both failed
C38_Witness ==
    /\ phase = "Complete"
    /\ N = 2
    /\ \A i \in 1..N : tasks[i].synth = "failed"
    /\ gen_reply.status = 200

====
